---- MODULE Spec2Model ----
(***************************************************************************)
(* A model of two control components of the robot and of one function of  *)
(* its repository tooling:                                                 *)
(*   crates/control/src/foot_bumper_filter.rs   (FootBumperFilter)         *)
(*   crates/control/src/spline_interpolator.rs  (SplineInterpolator)       *)
(*   crates/repository/src/lib.rs               (download_with_fallback)   *)
(* Each component has its own specification (SpecFilter, SpecSpline, ...)  *)
(* over the variables it owns; the other variables stay unchanged.         *)
(***************************************************************************)
EXTENDS Integers, Sequences, FiniteSets, TLC

VARIABLES
    filter,             \* the FootBumperFilter struct (foot_bumper_filter.rs:14-28)
    now,                \* the wall clock read by SystemTime::now() / elapsed()
    called,             \* the last call of cycle: enabled, fall_state, in_use before it
    main_outputs,       \* MainOutputs.foot_bumper_obstacle of the last call
    foot_bumper_values, \* the AdditionalOutput of the last call, or None
    parameters,         \* the Parameter<..> values of CycleContext, set by the framework
    history,            \* the raw left presses the enabled calls have seen so far
    twin,               \* a second run of the filter, for comparing two runs
    keys,               \* the key list handed to SplineInterpolator::try_new
    interpolator,       \* the Result of try_new (spline_interpolator.rs:93-131)
    sampled,            \* the Result of the last call of value, if any
    download            \* a call of download_with_fallback (lib.rs:484-514)

vars == <<filter, now, called, main_outputs, foot_bumper_values, parameters,
          history, twin, keys, interpolator, sampled, download>>

(***************************************************************************)
(* Bounds of the model.                                                    *)
(***************************************************************************)
\* the wall clock runs from 0 to MaxTime ticks
MaxTime == 2
\* the activation counts are followed up to MaxCount
MaxCount == 2

(***************************************************************************)
(* Inputs.                                                                 *)
(***************************************************************************)
\* Option<T>: None is the empty sequence, Some(x) the sequence of x
None == <<>>

Some(x) == <<x>>

unwrap(option) == option[1]

\* no SplineInterpolator has been constructed, no value has been asked for
NotConstructed == [tag |-> "None"]

NotSampled == [tag |-> "None"]

\* download_with_fallback has not been called
NotStarted == [tag |-> "NotStarted"]

\* FallState: only Upright is matched by name in cycle
FallStates == {"Upright", "Fallen"}

\* SensorData.touch_sensors: the four foot bumper bits read by cycle. Each
\* foot has no bit, its left bit or its right bit set, or all four are set.
TouchSensors ==
    {s \in [left_foot_left : BOOLEAN, left_foot_right : BOOLEAN,
            right_foot_left : BOOLEAN, right_foot_right : BOOLEAN] :
        (s.left_foot_left /\ s.left_foot_right)
            <=> (s.right_foot_left /\ s.right_foot_right)}

\* buffer_size
BufferSizes == {2}

\* acceptance_duration, in clock ticks
AcceptanceDurations == {1}

\* activations_needed
ActivationsNeeded == {2}

\* the pairs of number_of_detections_in_buffer_for_defective_declaration and
\* number_of_detections_in_buffer_to_reset_in_use: the second below the
\* first, with and without a value between them, and the two equal
Thresholds == {<<2, 0>>, <<2, 1>>, <<1, 1>>}

\* sensor_angle: 0 is the angle 0, 1 is the angle with cos = 3/5 and sin = 4/5
SensorAngles == {0, 1}

\* obstacle_distance
ObstacleDistances == {1}

\* cos and sin of a sensor angle, in fifths
Cos(angle) == IF angle = 0 THEN 5 ELSE 3

Sin(angle) == IF angle = 0 THEN 0 ELSE 4

CreationContext ==
    [buffer_size : BufferSizes, obstacle_distance : ObstacleDistances,
     sensor_angle : SensorAngles]

\* The Parameter fields of CycleContext other than enabled.
Parameters ==
    {[acceptance_duration |-> acceptance,
      activations_needed |-> needed,
      number_of_detections_in_buffer_for_defective_declaration |-> pair[1],
      number_of_detections_in_buffer_to_reset_in_use |-> pair[2],
      obstacle_distance |-> distance,
      sensor_angle |-> 0] :
        acceptance \in AcceptanceDurations, needed \in ActivationsNeeded,
        pair \in Thresholds, distance \in ObstacleDistances}

\* The Input fields of CycleContext, and the enabled parameter.
Inputs ==
    [enabled : BOOLEAN, fall_state : FallStates, touch_sensors : TouchSensors]

\* CycleContext: the parameters and the inputs of one call of cycle.
CycleContext(params, input) ==
    [acceptance_duration |-> params.acceptance_duration,
     activations_needed |-> params.activations_needed,
     enabled |-> input.enabled,
     number_of_detections_in_buffer_for_defective_declaration |->
        params.number_of_detections_in_buffer_for_defective_declaration,
     number_of_detections_in_buffer_to_reset_in_use |->
        params.number_of_detections_in_buffer_to_reset_in_use,
     obstacle_distance |-> params.obstacle_distance,
     sensor_angle |-> params.sensor_angle,
     fall_state |-> input.fall_state,
     touch_sensors |-> input.touch_sensors]

(***************************************************************************)
(* FootBumperFilter                                                        *)
(***************************************************************************)
point(x, y) == [x |-> x, y |-> y]

\* FootBumperFilter::new: the points, in_use true, buffers of buffer_size
\* false entries, everything else Default (0, None, false).
new(context) ==
    [left_point |-> point(Cos(context.sensor_angle) * context.obstacle_distance,
                          Sin(context.sensor_angle) * context.obstacle_distance),
     right_point |-> point(Cos(context.sensor_angle) * context.obstacle_distance,
                           -Sin(context.sensor_angle) * context.obstacle_distance),
     middle_point |-> point(5 * context.obstacle_distance, 0),
     left_in_use |-> TRUE,
     right_in_use |-> TRUE,
     left_detection_buffer |-> [i \in 1..context.buffer_size |-> FALSE],
     right_detection_buffer |-> [i \in 1..context.buffer_size |-> FALSE],
     left_count |-> 0,
     right_count |-> 0,
     last_left_time |-> None,
     last_right_time |-> None,
     left_pressed_last_cycle |-> FALSE,
     right_pressed_last_cycle |-> FALSE]

\* press_left without the test of left_pressed_last_cycle at line 96
press_left_while_pressed(self, touch_sensors, t) ==
    IF touch_sensors.left_foot_left \/ touch_sensors.left_foot_right
    THEN [self EXCEPT !.left_count = @ + 1,
                      !.left_pressed_last_cycle = TRUE,
                      !.last_left_time = Some(t)]
    ELSE [self EXCEPT !.left_pressed_last_cycle = FALSE]

\* a release that forgets the time of the last activation
press_left_forgetting_time(self, touch_sensors, t) ==
    IF touch_sensors.left_foot_left \/ touch_sensors.left_foot_right
    THEN IF ~self.left_pressed_last_cycle
         THEN [self EXCEPT !.left_count = @ + 1,
                           !.left_pressed_last_cycle = TRUE,
                           !.last_left_time = Some(t)]
         ELSE self
    ELSE [self EXCEPT !.left_pressed_last_cycle = FALSE,
                      !.last_left_time = None]

\* lines 94-103: the press edge of the left side; t is SystemTime::now()
press_left(self, touch_sensors, t) ==
    IF touch_sensors.left_foot_left \/ touch_sensors.left_foot_right
    THEN IF ~self.left_pressed_last_cycle
         THEN [self EXCEPT !.left_count = @ + 1,
                           !.left_pressed_last_cycle = TRUE,
                           !.last_left_time = Some(t)]
         ELSE self
    ELSE [self EXCEPT !.left_pressed_last_cycle = FALSE]

\* a release that also gives up the count
press_right_resetting_on_release(self, touch_sensors, t) ==
    IF touch_sensors.right_foot_left \/ touch_sensors.right_foot_right
    THEN IF ~self.right_pressed_last_cycle
         THEN [self EXCEPT !.right_count = @ + 1,
                           !.right_pressed_last_cycle = TRUE,
                           !.last_right_time = Some(t)]
         ELSE self
    ELSE [self EXCEPT !.right_pressed_last_cycle = FALSE,
                      !.right_count = 0]

\* lines 105-113: the press edge of the right side
press_right(self, touch_sensors, t) ==
    IF touch_sensors.right_foot_left \/ touch_sensors.right_foot_right
    THEN IF ~self.right_pressed_last_cycle
         THEN [self EXCEPT !.right_count = @ + 1,
                           !.right_pressed_last_cycle = TRUE,
                           !.last_right_time = Some(t)]
         ELSE self
    ELSE [self EXCEPT !.right_pressed_last_cycle = FALSE]

\* SystemTime::elapsed: the clock t at the call minus the time stored
elapsed(time, t) == t - time

\* a decay as soon as the window is used up, not only after it
decay_left_at_window(self, acceptance_duration, t) ==
    IF self.last_left_time # None
       /\ elapsed(unwrap(self.last_left_time), t) >= acceptance_duration
    THEN [self EXCEPT !.last_left_time = None,
                      !.left_count = 0,
                      !.left_pressed_last_cycle = FALSE]
    ELSE self

\* a left side whose decay takes the right side's count with it
decay_left_of_both_sides(self, acceptance_duration, t) ==
    IF self.last_left_time # None
       /\ elapsed(unwrap(self.last_left_time), t) > acceptance_duration
    THEN [self EXCEPT !.last_left_time = None,
                      !.left_count = 0,
                      !.left_pressed_last_cycle = FALSE,
                      !.last_right_time = None,
                      !.right_count = 0]
    ELSE self

\* a left side that forgets the time of its last activation but not its count
decay_left_keeping_count(self, acceptance_duration, t) ==
    IF self.last_left_time # None
       /\ elapsed(unwrap(self.last_left_time), t) > acceptance_duration
    THEN [self EXCEPT !.last_left_time = None,
                      !.left_pressed_last_cycle = FALSE]
    ELSE self

\* lines 115-125: the left side decays when its last activation is too old
decay_left(self, acceptance_duration, t) ==
    IF self.last_left_time # None
       /\ elapsed(unwrap(self.last_left_time), t) > acceptance_duration
    THEN [self EXCEPT !.last_left_time = None,
                      !.left_count = 0,
                      !.left_pressed_last_cycle = FALSE]
    ELSE self

\* lines 127-137: the right side decays
decay_right(self, acceptance_duration, t) ==
    IF self.last_right_time # None
       /\ elapsed(unwrap(self.last_right_time), t) > acceptance_duration
    THEN [self EXCEPT !.last_right_time = None,
                      !.right_count = 0,
                      !.right_pressed_last_cycle = FALSE]
    ELSE self

\* VecDeque::push_back
push_back(buffer, x) == Append(buffer, x)

\* VecDeque::pop_front: removes the first entry, if there is one
pop_front(buffer) == IF Len(buffer) = 0 THEN buffer ELSE Tail(buffer)

\* VecDeque::pop_back: removes the last entry, if there is one
pop_back(buffer) ==
    IF Len(buffer) = 0 THEN buffer ELSE SubSeq(buffer, 1, Len(buffer) - 1)

\* buffers that drop their newest entry, not their oldest
update_buffers_evicting_newest(self) ==
    [self EXCEPT
        !.left_detection_buffer =
            pop_back(push_back(@, self.left_pressed_last_cycle)),
        !.right_detection_buffer =
            pop_back(push_back(@, self.right_pressed_last_cycle))]

\* lines 138-143: both buffers take the pressed flag and drop their oldest entry
update_buffers(self) ==
    [self EXCEPT
        !.left_detection_buffer =
            pop_front(push_back(@, self.left_pressed_last_cycle)),
        !.right_detection_buffer =
            pop_front(push_back(@, self.right_pressed_last_cycle))]

\* buffer.iter().filter(|x| **x).count()
true_count(buffer) == Cardinality({i \in 1..Len(buffer) : buffer[i]})

\* check_for_bumper_errors with > in place of >= at lines 186 and 191
check_for_bumper_errors_above(self, context) ==
    LET left_count == true_count(self.left_detection_buffer)
        right_count == true_count(self.right_detection_buffer)
        defective == context.number_of_detections_in_buffer_for_defective_declaration
        reset == context.number_of_detections_in_buffer_to_reset_in_use
        s1 == IF left_count > defective
              THEN [self EXCEPT !.left_in_use = FALSE] ELSE self
        s2 == IF right_count > defective
              THEN [s1 EXCEPT !.right_in_use = FALSE] ELSE s1
        s3 == IF ~s2.left_in_use /\ left_count <= reset
              THEN [s2 EXCEPT !.left_in_use = TRUE] ELSE s2
        s4 == IF ~s3.right_in_use /\ right_count <= reset
              THEN [s3 EXCEPT !.right_in_use = TRUE] ELSE s3
    IN  s4

\* check_for_bumper_errors with < in place of <= at lines 195 and 200
check_for_bumper_errors_below(self, context) ==
    LET left_count == true_count(self.left_detection_buffer)
        right_count == true_count(self.right_detection_buffer)
        defective == context.number_of_detections_in_buffer_for_defective_declaration
        reset == context.number_of_detections_in_buffer_to_reset_in_use
        s1 == IF left_count >= defective
              THEN [self EXCEPT !.left_in_use = FALSE] ELSE self
        s2 == IF right_count >= defective
              THEN [s1 EXCEPT !.right_in_use = FALSE] ELSE s1
        s3 == IF ~s2.left_in_use /\ left_count < reset
              THEN [s2 EXCEPT !.left_in_use = TRUE] ELSE s2
        s4 == IF ~s3.right_in_use /\ right_count < reset
              THEN [s3 EXCEPT !.right_in_use = TRUE] ELSE s3
    IN  s4

\* check_for_bumper_errors with one threshold: a side is back in use as soon
\* as its count is below the defective threshold
check_for_bumper_errors_single_threshold(self, context) ==
    LET left_count == true_count(self.left_detection_buffer)
        right_count == true_count(self.right_detection_buffer)
        defective == context.number_of_detections_in_buffer_for_defective_declaration
        s1 == IF left_count >= defective
              THEN [self EXCEPT !.left_in_use = FALSE] ELSE self
        s2 == IF right_count >= defective
              THEN [s1 EXCEPT !.right_in_use = FALSE] ELSE s1
        s3 == IF ~s2.left_in_use /\ left_count < defective
              THEN [s2 EXCEPT !.left_in_use = TRUE] ELSE s2
        s4 == IF ~s3.right_in_use /\ right_count < defective
              THEN [s3 EXCEPT !.right_in_use = TRUE] ELSE s3
    IN  s4

\* check_for_bumper_errors that leaves the in-use flags alone while the
\* robot is not upright
check_for_bumper_errors_when_upright(self, context) ==
    LET left_count == true_count(self.left_detection_buffer)
        right_count == true_count(self.right_detection_buffer)
        defective == context.number_of_detections_in_buffer_for_defective_declaration
        reset == context.number_of_detections_in_buffer_to_reset_in_use
        s1 == IF left_count >= defective
              THEN [self EXCEPT !.left_in_use = FALSE] ELSE self
        s2 == IF right_count >= defective
              THEN [s1 EXCEPT !.right_in_use = FALSE] ELSE s1
        s3 == IF ~s2.left_in_use /\ left_count <= reset
              THEN [s2 EXCEPT !.left_in_use = TRUE] ELSE s2
        s4 == IF ~s3.right_in_use /\ right_count <= reset
              THEN [s3 EXCEPT !.right_in_use = TRUE] ELSE s3
    IN  IF context.fall_state = "Upright" THEN s4 ELSE self

\* lines 183-204
check_for_bumper_errors(self, context) ==
    LET left_count == true_count(self.left_detection_buffer)
        right_count == true_count(self.right_detection_buffer)
        defective == context.number_of_detections_in_buffer_for_defective_declaration
        reset == context.number_of_detections_in_buffer_to_reset_in_use
        s1 == IF left_count >= defective
              THEN [self EXCEPT !.left_in_use = FALSE] ELSE self
        s2 == IF right_count >= defective
              THEN [s1 EXCEPT !.right_in_use = FALSE] ELSE s1
        s3 == IF ~s2.left_in_use /\ left_count <= reset
              THEN [s2 EXCEPT !.left_in_use = TRUE] ELSE s2
        s4 == IF ~s3.right_in_use /\ right_count <= reset
              THEN [s3 EXCEPT !.right_in_use = TRUE] ELSE s3
    IN  s4

\* obstacle_positions with the first arm of the match open to any fall_state
obstacle_positions_any_fall_state(self, fall_state, on_left, on_right) ==
    IF on_left /\ on_right /\ self.left_in_use /\ self.right_in_use
    THEN <<self.middle_point>>
    ELSE IF fall_state = "Upright" /\ on_left /\ ~on_right /\ self.left_in_use
    THEN <<self.left_point>>
    ELSE IF fall_state = "Upright" /\ ~on_left /\ on_right /\ self.right_in_use
    THEN <<self.right_point>>
    ELSE <<>>

\* obstacle_positions with the second arm of the match open to any right
\* detection: (Upright, true, _, true, _)
obstacle_positions_left_first(self, fall_state, on_left, on_right) ==
    IF fall_state = "Upright" /\ on_left /\ on_right
       /\ self.left_in_use /\ self.right_in_use
    THEN <<self.middle_point>>
    ELSE IF fall_state = "Upright" /\ on_left /\ self.left_in_use
    THEN <<self.left_point>>
    ELSE IF fall_state = "Upright" /\ ~on_left /\ on_right /\ self.right_in_use
    THEN <<self.right_point>>
    ELSE <<>>

\* lines 150-161: the match on (fall_state, detected left, detected right,
\* left_in_use, right_in_use), first arm that matches
obstacle_positions(self, fall_state, on_left, on_right) ==
    IF fall_state = "Upright" /\ on_left /\ on_right
       /\ self.left_in_use /\ self.right_in_use
    THEN <<self.middle_point>>
    ELSE IF fall_state = "Upright" /\ on_left /\ ~on_right /\ self.left_in_use
    THEN <<self.left_point>>
    ELSE IF fall_state = "Upright" /\ ~on_left /\ on_right /\ self.right_in_use
    THEN <<self.right_point>>
    ELSE <<>>

\* lines 162-167: one FootBumperObstacle per position
foot_bumper_obstacles(positions) ==
    [i \in 1..Len(positions) |-> [position_in_robot |-> positions[i]]]

\* an enabled cycle that derives the three points anew from the
\* obstacle_distance and sensor_angle of its own context
enabled_cycle_with_cycle_geometry(self, context, t_now, t_elapsed) ==
    LET fresh == new([buffer_size |-> 0,
                      obstacle_distance |-> context.obstacle_distance,
                      sensor_angle |-> context.sensor_angle])
        pressed == press_right(press_left(self, context.touch_sensors, t_now),
                               context.touch_sensors, t_now)
        decayed == decay_right(
                       decay_left(pressed, context.acceptance_duration, t_elapsed),
                       context.acceptance_duration, t_elapsed)
        buffered == update_buffers(decayed)
        obstacle_detected_on_left ==
            buffered.left_count >= context.activations_needed
        obstacle_detected_on_right ==
            buffered.right_count >= context.activations_needed
        checked == [check_for_bumper_errors(buffered, context) EXCEPT
                        !.left_point = fresh.left_point,
                        !.right_point = fresh.right_point,
                        !.middle_point = fresh.middle_point]
    IN  [self |-> checked,
         foot_bumper_obstacle |->
            foot_bumper_obstacles(
                obstacle_positions(checked, context.fall_state,
                                   obstacle_detected_on_left,
                                   obstacle_detected_on_right)),
         foot_bumper_values |->
            Some([left_foot_bumper_count |-> checked.left_count,
                  right_foot_bumper_count |-> checked.right_count,
                  obstacle_deteced_on_left |-> obstacle_detected_on_left,
                  obstacle_deteced_on_right |-> obstacle_detected_on_right])]

\* FootBumperFilter::cycle after the check of enabled (lines 94-181). t_now
\* is the clock at the SystemTime::now() calls (lines 99, 109), t_elapsed the
\* clock at the elapsed() calls (lines 117, 129). The result is the filter
\* after the call, the main output and the additional output (what
\* fill_if_subscribed is given).
enabled_cycle(self, context, t_now, t_elapsed) ==
    LET pressed == press_right(press_left(self, context.touch_sensors, t_now),
                               context.touch_sensors, t_now)
        decayed == decay_right(
                       decay_left(pressed, context.acceptance_duration, t_elapsed),
                       context.acceptance_duration, t_elapsed)
        buffered == update_buffers(decayed)
        obstacle_detected_on_left ==
            buffered.left_count >= context.activations_needed
        obstacle_detected_on_right ==
            buffered.right_count >= context.activations_needed
        checked == check_for_bumper_errors(buffered, context)
    IN  [self |-> checked,
         foot_bumper_obstacle |->
            foot_bumper_obstacles(
                obstacle_positions(checked, context.fall_state,
                                   obstacle_detected_on_left,
                                   obstacle_detected_on_right)),
         foot_bumper_values |->
            Some([left_foot_bumper_count |-> checked.left_count,
                  right_foot_bumper_count |-> checked.right_count,
                  obstacle_deteced_on_left |-> obstacle_detected_on_left,
                  obstacle_deteced_on_right |-> obstacle_detected_on_right])]

\* cycle without the early return of lines 90-92
cycle_without_early_return(self, context, t_now, t_elapsed) ==
    enabled_cycle(self, context, t_now, t_elapsed)

\* FootBumperFilter::cycle (lines 87-181)
cycle(self, context, t_now, t_elapsed) ==
    IF ~context.enabled
    THEN [self |-> self,
          foot_bumper_obstacle |-> <<>>,
          foot_bumper_values |-> None]
    ELSE enabled_cycle(self, context, t_now, t_elapsed)

(***************************************************************************)
(* The filter as a state machine: the framework constructs it once and     *)
(* calls cycle once per control cycle.                                     *)
(***************************************************************************)
\* What the clock does in one call: the ticks that pass up to the now() calls
\* and the ticks that pass from there to the elapsed() calls.
ClockReads == {<<0, 0>>, <<1, 0>>, <<0, 1>>}

NotCalled ==
    [enabled |-> FALSE, fall_state |-> "Upright",
     left_was_in_use |-> TRUE, right_was_in_use |-> TRUE]

NoHistory == <<>>

\* The configurations the filter is run in: what new is given and the
\* parameters of the calls of cycle. The angle 0, where the three points are
\* one, is run with one pair of thresholds.
Configurations ==
    {c \in CreationContext \X Parameters :
        (c[1].sensor_angle = 0) <=>
            <<c[2].number_of_detections_in_buffer_for_defective_declaration,
              c[2].number_of_detections_in_buffer_to_reset_in_use>> = <<2, 1>>}

InitFilter ==
    /\ \E c \in Configurations : filter = new(c[1]) /\ parameters = c[2]
    /\ now = 0
    /\ called = NotCalled
    /\ main_outputs = <<>>
    /\ foot_bumper_values = None
    /\ history = NoHistory
    /\ twin = None
    /\ keys = <<>>
    /\ interpolator = NotConstructed
    /\ sampled = NotSampled
    /\ download = NotStarted

\* One call of cycle by the framework, with this input and these clock reads.
Call(input, clock) ==
    LET t_now == now + clock[1]
        t_elapsed == t_now + clock[2]
    IN  \E result \in {cycle(filter, CycleContext(parameters, input),
                              t_now, t_elapsed)} :
            /\ t_elapsed <= MaxTime
            /\ result.self.left_count <= MaxCount
            /\ result.self.right_count <= MaxCount
            /\ filter' = result.self
            /\ now' = t_elapsed
            /\ called' = [enabled |-> input.enabled,
                          fall_state |-> input.fall_state,
                          left_was_in_use |-> filter.left_in_use,
                          right_was_in_use |-> filter.right_in_use]
            /\ main_outputs' = result.foot_bumper_obstacle
            /\ foot_bumper_values' = result.foot_bumper_values
            /\ UNCHANGED <<parameters, keys, interpolator, sampled, download>>

Cycle ==
    /\ \E input \in Inputs, clock \in ClockReads : Call(input, clock)
    /\ UNCHANGED <<history, twin>>

NextFilter == Cycle

SpecFilter == InitFilter /\ [][NextFilter]_vars

(***************************************************************************)
(* The left side alone, with a record of the raw presses the enabled calls *)
(* have read: whether the last enabled call read the left side pressed,    *)
(* whether that was a press edge (pressed now, not pressed in the enabled  *)
(* call before), how many press edges there were (2 stands for two or      *)
(* more), and the clock at the last edge and at the one before it.         *)
(***************************************************************************)
\* the calls of this run: the right foot is never touched, the robot stands
LeftInputs ==
    {input \in Inputs :
        /\ input.fall_state = "Upright"
        /\ ~input.touch_sensors.right_foot_left
        /\ ~input.touch_sensors.right_foot_right}

\* acceptance_duration of this run: at least the ticks one call can take
\* between its now() and its elapsed()
DebounceDurations == {1, 2}

DebounceParameters ==
    {[acceptance_duration |-> acceptance,
      activations_needed |-> 2,
      number_of_detections_in_buffer_for_defective_declaration |-> 2,
      number_of_detections_in_buffer_to_reset_in_use |-> 0,
      obstacle_distance |-> 1,
      sensor_angle |-> 1] : acceptance \in DebounceDurations}

NoPress ==
    [left_raw |-> FALSE, edge |-> FALSE, left_presses |-> 0,
     edge_time |-> None, previous_edge_time |-> None]

\* the record after a call with this input whose now() read t_now
track(h, input, t_now) ==
    LET raw == input.touch_sensors.left_foot_left
               \/ input.touch_sensors.left_foot_right
        rising == raw /\ ~h.left_raw
    IN  IF ~input.enabled THEN h
        ELSE [left_raw |-> raw,
              edge |-> rising,
              left_presses |-> IF rising /\ h.left_presses < 2
                               THEN h.left_presses + 1 ELSE h.left_presses,
              edge_time |-> IF rising THEN Some(t_now) ELSE h.edge_time,
              previous_edge_time |->
                  IF rising THEN h.edge_time ELSE h.previous_edge_time]

InitDebounce ==
    /\ filter = new([buffer_size |-> 2, obstacle_distance |-> 1,
                     sensor_angle |-> 1])
    /\ parameters \in DebounceParameters
    /\ now = 0
    /\ called = NotCalled
    /\ main_outputs = <<>>
    /\ foot_bumper_values = None
    /\ history = NoPress
    /\ twin = None
    /\ keys = <<>>
    /\ interpolator = NotConstructed
    /\ sampled = NotSampled
    /\ download = NotStarted

TrackedCycle ==
    /\ \E input \in LeftInputs, clock \in ClockReads :
        /\ Call(input, clock)
        /\ history' = track(history, input, now + clock[1])
    /\ UNCHANGED twin

NextDebounce == TrackedCycle

SpecDebounce == InitDebounce /\ [][NextDebounce]_vars

(***************************************************************************)
(* Two runs of one filter on the same enabled calls. The run in filter     *)
(* also gets calls with enabled = false between them, which take time like *)
(* any call; the run in twin gets the enabled calls only.                  *)
(***************************************************************************)
TwinParameters == {p \in DebounceParameters : p.acceptance_duration = 1}

InitTwin ==
    /\ filter = new([buffer_size |-> 2, obstacle_distance |-> 1,
                     sensor_angle |-> 1])
    /\ parameters \in TwinParameters
    /\ now = 0
    /\ called = NotCalled
    /\ main_outputs = <<>>
    /\ foot_bumper_values = None
    /\ history = NoHistory
    /\ twin = [filter |-> filter, now |-> 0, main_outputs |-> <<>>]
    /\ keys = <<>>
    /\ interpolator = NotConstructed
    /\ sampled = NotSampled
    /\ download = NotStarted

\* an enabled call, made in both runs with the same input and clock steps
TwinCycle ==
    /\ \E input \in LeftInputs, clock \in ClockReads :
        /\ input.enabled
        /\ Call(input, clock)
        /\ \E result \in {cycle(twin.filter, CycleContext(parameters, input),
                                twin.now + clock[1],
                                twin.now + clock[1] + clock[2])} :
            twin' = [filter |-> result.self,
                     now |-> twin.now + clock[1] + clock[2],
                     main_outputs |-> result.foot_bumper_obstacle]
    /\ UNCHANGED history

\* a call with enabled = false, made in the first run only
InsertedCycle ==
    /\ \E input \in LeftInputs, clock \in ClockReads :
        /\ ~input.enabled
        /\ Call(input, clock)
    /\ UNCHANGED <<history, twin>>

NextTwin == TwinCycle \/ InsertedCycle

SpecTwin == InitTwin /\ [][NextTwin]_vars

(***************************************************************************)
(* The filter with a log of the last call: history keeps the filter as it  *)
(* was before the call, the input of the call and its two clock reads;     *)
(* twin keeps the CreationContext it was made from. The robot stands.      *)
(***************************************************************************)
LoggedBufferSizes == {0, 2}

\* a call with enabled = false reads no sensor: one such input is enough
LoggedInputs ==
    {input \in Inputs :
        /\ input.fall_state = "Upright"
        /\ ~input.enabled =>
            \A sensor \in DOMAIN input.touch_sensors :
                ~input.touch_sensors[sensor]}

LoggedParameters ==
    {p \in DebounceParameters : p.acceptance_duration = 1}

InitLogged ==
    /\ \E buffer_size \in LoggedBufferSizes :
        /\ twin = [buffer_size |-> buffer_size, obstacle_distance |-> 1,
                   sensor_angle |-> 1]
        /\ filter = new(twin)
    /\ parameters \in LoggedParameters
    /\ now = 0
    /\ called = NotCalled
    /\ main_outputs = <<>>
    /\ foot_bumper_values = None
    /\ history = None
    /\ keys = <<>>
    /\ interpolator = NotConstructed
    /\ sampled = NotSampled
    /\ download = NotStarted

LoggedCycle ==
    /\ \E input \in LoggedInputs, clock \in ClockReads :
        /\ Call(input, clock)
        /\ history' = Some([before |-> filter,
                            input |-> input,
                            t_now |-> now + clock[1],
                            t_elapsed |-> now + clock[1] + clock[2]])
    /\ UNCHANGED twin

NextLogged == LoggedCycle

SpecLogged == InitLogged /\ [][NextLogged]_vars

(***************************************************************************)
(* Two runs of one filter that get the same calls at the same clock reads, *)
(* except for the sensors of one foot: history names the foot whose        *)
(* sensors the two runs share, twin is the second run.                     *)
(***************************************************************************)
Sides == {"left", "right"}

\* the readings of one foot
left_sensors(input) ==
    <<input.touch_sensors.left_foot_left, input.touch_sensors.left_foot_right>>

right_sensors(input) ==
    <<input.touch_sensors.right_foot_left, input.touch_sensors.right_foot_right>>

\* the inputs of one run: the robot stands, a foot is pressed at the bumper
\* on its inner side or not at all, a call with enabled = false reads nothing
PressInputs ==
    {input \in LoggedInputs :
        /\ ~input.touch_sensors.left_foot_left
        /\ ~input.touch_sensors.right_foot_right}

\* the inputs of the two runs in one cycle: equal but for the other foot
SidesInputs(side) ==
    {pair \in PressInputs \X PressInputs :
        /\ pair[1].enabled = pair[2].enabled
        /\ IF side = "left"
           THEN left_sensors(pair[1]) = left_sensors(pair[2])
           ELSE right_sensors(pair[1]) = right_sensors(pair[2])}

LeftSharedInputs == SidesInputs("left")

RightSharedInputs == SidesInputs("right")

\* buffers of one entry: a side is out of use after a cycle that left it
\* pressed and back in use after one that did not
SidesParameters ==
    {[acceptance_duration |-> 1,
      activations_needed |-> 2,
      number_of_detections_in_buffer_for_defective_declaration |-> 1,
      number_of_detections_in_buffer_to_reset_in_use |-> 0,
      obstacle_distance |-> 1,
      sensor_angle |-> 1]}

InitSides ==
    /\ filter = new([buffer_size |-> 1, obstacle_distance |-> 1,
                     sensor_angle |-> 1])
    /\ parameters \in SidesParameters
    /\ now = 0
    /\ called = NotCalled
    /\ main_outputs = <<>>
    /\ foot_bumper_values = None
    /\ history \in Sides
    /\ twin = [filter |-> filter, now |-> 0, main_outputs |-> <<>>]
    /\ keys = <<>>
    /\ interpolator = NotConstructed
    /\ sampled = NotSampled
    /\ download = NotStarted

\* one cycle of both runs
SidesCycle ==
    /\ \E pair \in (IF history = "left" THEN LeftSharedInputs
                                          ELSE RightSharedInputs),
          clock \in ClockReads :
        /\ Call(pair[1], clock)
        /\ \E result \in {cycle(twin.filter, CycleContext(parameters, pair[2]),
                                twin.now + clock[1],
                                twin.now + clock[1] + clock[2])} :
            /\ result.self.left_count <= MaxCount
            /\ result.self.right_count <= MaxCount
            /\ twin' = [filter |-> result.self,
                        now |-> twin.now + clock[1] + clock[2],
                        main_outputs |-> result.foot_bumper_obstacle]
    /\ UNCHANGED history

NextSides == SidesCycle

SpecSides == InitSides /\ [][NextSides]_vars

(***************************************************************************)
(* A side that is pressed for a while and then left alone. history names   *)
(* the side, the phase ("pressing": any reading; "quiet": from some cycle  *)
(* on the side reads unpressed), the count the side had when the quiet     *)
(* phase began and the parity of the number of calls, which makes every    *)
(* call a step. The clock stops at MaxTime, so the pressing ends early     *)
(* enough for the acceptance window to run out before that.                *)
(***************************************************************************)
\* the raw reading of a side
reads_pressed(input, side) ==
    IF side = "left"
    THEN input.touch_sensors.left_foot_left \/ input.touch_sensors.left_foot_right
    ELSE input.touch_sensors.right_foot_left \/ input.touch_sensors.right_foot_right

\* the activation count of a side
count_of(f, side) == IF side = "left" THEN f.left_count ELSE f.right_count

InitDecay ==
    /\ filter = new([buffer_size |-> 2, obstacle_distance |-> 1,
                     sensor_angle |-> 1])
    /\ parameters \in TwinParameters
    /\ now = 0
    /\ called = NotCalled
    /\ main_outputs = <<>>
    /\ foot_bumper_values = None
    /\ \E side \in Sides :
        history = [side |-> side, phase |-> "pressing", quiet_from |-> 0,
                   calls |-> 0]
    /\ twin = None
    /\ keys = <<>>
    /\ interpolator = NotConstructed
    /\ sampled = NotSampled
    /\ download = NotStarted

\* a cycle of the pressing phase, with any reading
PressingCycle ==
    /\ history.phase = "pressing"
    /\ \E input \in PressInputs, clock \in ClockReads :
        /\ now + clock[1] + clock[2] + parameters.acceptance_duration + 1
            <= MaxTime
        /\ Call(input, clock)
    /\ history' = [history EXCEPT !.calls = 1 - @]
    /\ UNCHANGED twin

\* a cycle that reads the side unpressed, the first of the quiet phase or a
\* later one
quiet_cycle(enabled) ==
    /\ \E input \in PressInputs, clock \in ClockReads :
        /\ input.enabled = enabled
        /\ ~reads_pressed(input, history.side)
        /\ Call(input, clock)
    /\ history' = IF history.phase = "quiet"
                  THEN [history EXCEPT !.calls = 1 - @]
                  ELSE [history EXCEPT !.phase = "quiet",
                                       !.quiet_from = count_of(filter, history.side),
                                       !.calls = 1 - @]
    /\ UNCHANGED twin

EnabledQuietCycle == quiet_cycle(TRUE)

DisabledQuietCycle == quiet_cycle(FALSE)

NextDecay == PressingCycle \/ EnabledQuietCycle \/ DisabledQuietCycle

\* What the framework and the clock do in the quiet phase: enabled cycles
\* keep occurring, and time keeps advancing as far as the clock of the model
\* goes. An enabled quiet cycle can be taken in every state of the quiet phase
\* and a call that takes time in every state with now < MaxTime, so these are
\* the weak fairness conditions of the two, with ENABLED written out.
FairDecay ==
    /\ []<>(history.phase # "quiet")
        \/ []<><<history.phase = "quiet" /\ called'.enabled>>_vars
    /\ []<>(now = MaxTime) \/ []<><<now' > now>>_vars

SpecDecay == InitDecay /\ [][NextDecay]_vars /\ FairDecay

(***************************************************************************)
(* Two runs of one filter on the same calls at the same clock reads: the   *)
(* run in filter with any fall state, the run in twin always upright.      *)
(* history tells whether the last call, and the call before it, was an     *)
(* enabled one of a robot not upright in which the upright run reported an *)
(* obstacle.                                                               *)
(***************************************************************************)
\* an enabled call reads one sensor per foot or none; a call with
\* enabled = false reads nothing
FallInputs ==
    {input \in Inputs :
        /\ ~input.touch_sensors.left_foot_left
        /\ ~input.touch_sensors.right_foot_right
        /\ ~input.enabled =>
            /\ input.fall_state = "Upright"
            /\ ~input.touch_sensors.left_foot_right
            /\ ~input.touch_sensors.right_foot_left}

InitFall ==
    /\ filter = new([buffer_size |-> 2, obstacle_distance |-> 1,
                     sensor_angle |-> 1])
    /\ parameters \in TwinParameters
    /\ now = 0
    /\ called = NotCalled
    /\ main_outputs = <<>>
    /\ foot_bumper_values = None
    /\ history = [suppressed |-> FALSE, suppressed_before |-> FALSE]
    /\ twin = [filter |-> filter, now |-> 0, main_outputs |-> <<>>]
    /\ keys = <<>>
    /\ interpolator = NotConstructed
    /\ sampled = NotSampled
    /\ download = NotStarted

\* one cycle of both runs
FallCycle ==
    \E input \in FallInputs, clock \in ClockReads :
        /\ Call(input, clock)
        /\ \E result \in {cycle(twin.filter,
                                CycleContext(parameters,
                                    [input EXCEPT !.fall_state = "Upright"]),
                                twin.now + clock[1],
                                twin.now + clock[1] + clock[2])} :
            /\ twin' = [filter |-> result.self,
                        now |-> twin.now + clock[1] + clock[2],
                        main_outputs |-> result.foot_bumper_obstacle]
            /\ history' = [suppressed |->
                              /\ input.enabled
                              /\ input.fall_state # "Upright"
                              /\ result.foot_bumper_obstacle # <<>>,
                           suppressed_before |-> history.suppressed]

NextFall == FallCycle

SpecFall == InitFall /\ [][NextFall]_vars

(***************************************************************************)
(* Claims about FootBumperFilter, checked under SpecFilter.                *)
(***************************************************************************)
obstacle(position) == [position_in_robot |-> position]

defective_threshold ==
    parameters.number_of_detections_in_buffer_for_defective_declaration

reset_threshold == parameters.number_of_detections_in_buffer_to_reset_in_use

\* the detection flags of the last call, when it was an enabled one
detected_on_left == foot_bumper_values[1].obstacle_deteced_on_left

detected_on_right == foot_bumper_values[1].obstacle_deteced_on_right

\* C1: a call of cycle with enabled = false leaves every field of the filter
\* as it was and returns no obstacle, whatever the state, the sensors and
\* the fall state are.
C1_DisabledCycleChangesNothing ==
    [][~called'.enabled =>
        /\ filter' = filter
        /\ main_outputs' = <<>>]_vars

\* A disabled call on a filter that holds an activation, a stamped time
\* older than the acceptance duration and a pressed buffer entry.
C1_Witness ==
    /\ ~called.enabled
    /\ filter.left_count > 0
    /\ filter.last_left_time # None
    /\ now - unwrap(filter.last_left_time) > parameters.acceptance_duration
    /\ true_count(filter.left_detection_buffer) > 0
    /\ main_outputs = <<>>

\* C3: a call whose fall_state is not Upright returns no obstacle, whatever
\* the counts and the in_use flags are.
C3_NotUprightReportsNothing ==
    called.fall_state # "Upright" => main_outputs = <<>>

\* An enabled call of a fallen robot with both sides detected and in use.
C3_Witness ==
    /\ called.enabled
    /\ called.fall_state = "Fallen"
    /\ detected_on_left /\ detected_on_right
    /\ filter.left_in_use /\ filter.right_in_use
    /\ main_outputs = <<>>

\* C4: after an enabled call with fall_state Upright the obstacle list is
\* [middle] when both sides are detected and both are in use, [left] when
\* only the left is detected and it is in use, [right] when only the right
\* is detected and it is in use, and empty otherwise; it never holds more
\* than one obstacle.
C4_DecisionTable ==
    (called.enabled /\ called.fall_state = "Upright") =>
        /\ Len(main_outputs) <= 1
        /\ main_outputs =
            CASE detected_on_left /\ detected_on_right
                 /\ filter.left_in_use /\ filter.right_in_use
                    -> <<obstacle(filter.middle_point)>>
              [] detected_on_left /\ ~detected_on_right /\ filter.left_in_use
                    -> <<obstacle(filter.left_point)>>
              [] ~detected_on_left /\ detected_on_right /\ filter.right_in_use
                    -> <<obstacle(filter.right_point)>>
              [] OTHER -> <<>>

\* Both sides detected, the left in use and the right not: nothing reported.
C4_Witness ==
    /\ called.enabled
    /\ called.fall_state = "Upright"
    /\ detected_on_left /\ detected_on_right
    /\ filter.left_in_use /\ ~filter.right_in_use
    /\ main_outputs = <<>>

\* C6 as claimed: after an enabled call that leaves at least
\* number_of_detections_in_buffer_for_defective_declaration true entries in
\* a side's buffer, the side is not in use and the obstacle list holds
\* neither that side's point nor the middle point, for every pair of
\* thresholds.
C6_DefectiveSideIsOutOfUse ==
    called.enabled =>
        /\ true_count(filter.left_detection_buffer) >= defective_threshold =>
            /\ ~filter.left_in_use
            /\ main_outputs \notin {<<obstacle(filter.left_point)>>,
                                    <<obstacle(filter.middle_point)>>}
        /\ true_count(filter.right_detection_buffer) >= defective_threshold =>
            /\ ~filter.right_in_use
            /\ main_outputs \notin {<<obstacle(filter.right_point)>>,
                                    <<obstacle(filter.middle_point)>>}

\* C6 as amended: when the reset threshold is below the defective threshold,
\* after an enabled call that leaves at least the defective threshold of
\* true entries in a side's buffer, the side is not in use and the obstacle
\* list is empty or is the other side's point alone; so it holds neither
\* that side's point nor the middle point when the three points differ.
C6_DefectiveSideIsOutOfUseBelow ==
    (called.enabled /\ reset_threshold < defective_threshold) =>
        /\ true_count(filter.left_detection_buffer) >= defective_threshold =>
            /\ ~filter.left_in_use
            /\ main_outputs \in {<<>>, <<obstacle(filter.right_point)>>}
            /\ (filter.left_point # filter.right_point
                /\ filter.middle_point # filter.right_point) =>
                main_outputs \notin {<<obstacle(filter.left_point)>>,
                                     <<obstacle(filter.middle_point)>>}
        /\ true_count(filter.right_detection_buffer) >= defective_threshold =>
            /\ ~filter.right_in_use
            /\ main_outputs \in {<<>>, <<obstacle(filter.left_point)>>}
            /\ (filter.right_point # filter.left_point
                /\ filter.middle_point # filter.left_point) =>
                main_outputs \notin {<<obstacle(filter.right_point)>>,
                                     <<obstacle(filter.middle_point)>>}

\* The left side was in use, its buffer reaches the defective threshold in
\* a call that finds both sides detected: only the right point is reported.
C6_Witness ==
    /\ called.enabled
    /\ reset_threshold < defective_threshold
    /\ called.left_was_in_use
    /\ true_count(filter.left_detection_buffer) >= defective_threshold
    /\ ~filter.left_in_use
    /\ detected_on_right
    /\ main_outputs = <<obstacle(filter.right_point)>>

\* C7: a side that is not in use when an enabled call starts and whose
\* buffer holds at most number_of_detections_in_buffer_to_reset_in_use true
\* entries after the update of that call is in use when the call ends.
C7_QuietSideIsBackInUse ==
    called.enabled =>
        /\ (~called.left_was_in_use
            /\ true_count(filter.left_detection_buffer) <= reset_threshold)
                => filter.left_in_use
        /\ (~called.right_was_in_use
            /\ true_count(filter.right_detection_buffer) <= reset_threshold)
                => filter.right_in_use

\* The right side was not in use, its buffer has fallen to the reset
\* threshold with a true entry left, and the call puts it back in use.
C7_Witness ==
    /\ called.enabled
    /\ ~called.right_was_in_use
    /\ reset_threshold < defective_threshold
    /\ true_count(filter.right_detection_buffer) = reset_threshold
    /\ reset_threshold > 0
    /\ filter.right_in_use

(***************************************************************************)
(* Claims checked under SpecTwin and SpecDebounce.                         *)
(***************************************************************************)
\* the fields of two filters agree; the stored times are compared by what
\* they are for the code, present or absent
same_state(a, b) ==
    /\ [a EXCEPT !.last_left_time = None, !.last_right_time = None]
        = [b EXCEPT !.last_left_time = None, !.last_right_time = None]
    /\ (a.last_left_time = None) <=> (b.last_left_time = None)
    /\ (a.last_right_time = None) <=> (b.last_right_time = None)

\* C2: calls with enabled = false put between the enabled calls of a run,
\* the clock advancing in them as in any call, change neither the state nor
\* the obstacle list after the enabled calls that follow.
C2_DisabledCyclesAreTransparent ==
    called.enabled =>
        /\ same_state(filter, twin.filter)
        /\ main_outputs = twin.main_outputs

\* C5: with activations_needed = 2, at the end of a call that reads a
\* second left press edge no later than acceptance_duration after the one
\* before it the left side is detected; and as long as the enabled calls
\* have read a single left press (held, released or still held) the left
\* side is not detected at the end of any call.
C5_TwoEdgesDetectOneDoesNot ==
    called.enabled =>
        /\ (/\ history.edge
            /\ history.previous_edge_time # None
            /\ unwrap(history.edge_time) - unwrap(history.previous_edge_time)
                <= parameters.acceptance_duration)
            => detected_on_left
        /\ history.left_presses <= 1 => ~detected_on_left

\* The second edge comes exactly acceptance_duration after the first.
C5_Witness ==
    /\ called.enabled
    /\ history.edge
    /\ history.previous_edge_time # None
    /\ unwrap(history.edge_time) - unwrap(history.previous_edge_time)
        = parameters.acceptance_duration
    /\ filter.left_count = 2
    /\ detected_on_left

(***************************************************************************)
(* SplineInterpolator (crates/control/src/spline_interpolator.rs).         *)
(*                                                                         *)
(* A Duration is a whole number of seconds. A key time of the spline is an *)
(* f32: an integer here, rounded as f32 rounds (24 bits of significand,    *)
(* ties to even). A joint value is an integer; the key of position i in    *)
(* the list handed to try_new has the value i, so every key of a list is   *)
(* told from the others by its value. An interpolation mode is written as  *)
(* the text its Debug form starts with.                                    *)
(***************************************************************************)
\* the key lists handed to try_new have at most MaxKeys keys
MaxKeys == 3
\* playback is followed for MaxTicks seconds from 0 and from F32Exact
MaxTicks == 2

\* every integer up to 2^24 is an f32; above it the f32 values thin out
F32Exact == 16777216

RECURSIVE ulp(_)
\* the distance between neighbouring f32 values at the magnitude n
ulp(n) == IF n < F32Exact THEN 1 ELSE 2 * ulp(n \div 2)

\* the f32 nearest to the integer n, ties to the even significand
to_f32(n) ==
    LET magnitude == IF n < 0 THEN 0 - n ELSE n
        spacing == ulp(magnitude)
        quotient == magnitude \div spacing
        rest == magnitude % spacing
        rounded == IF 2 * rest < spacing THEN quotient * spacing
                   ELSE IF 2 * rest > spacing THEN (quotient + 1) * spacing
                   ELSE IF quotient % 2 = 0 THEN quotient * spacing
                   ELSE (quotient + 1) * spacing
    IN  IF n < 0 THEN 0 - rounded ELSE rounded

\* Duration::as_secs_f32
as_secs_f32(duration) == to_f32(duration)

SupportedModes == {"Linear", "Cosine", "CatmullRom"}

\* Interpolation::Step(_) and Interpolation::Bezier(_) stand for the modes
\* map_argument has no arm for
Modes == SupportedModes \cup {"Step", "Bezier"}

Ok(value) == [tag |-> "Ok", value |-> value]

Err(error) == [tag |-> "Err", error |-> error]

\* a panic of the thread (unwrap of None)
Panic == [tag |-> "Panic"]

TooFewKeysError == [kind |-> "TooFewKeysError"]

UnsupportedInterpolationMode(mode) ==
    [kind |-> "UnsupportedInterpolationMode", interpolation_mode |-> mode]

InterpolationControlKeyError(mode, before, after) ==
    [kind |-> "InterpolationControlKeyError", interpolation_mode |-> mode,
     keys_before |-> before, keys_after |-> after]

Key(t, value, interpolation) ==
    [t |-> t, value |-> value, interpolation |-> interpolation]

map_argument_without_cosine(interpolation) ==
    CASE interpolation = "Linear" -> Ok("Linear")
      [] interpolation = "CatmullRom" -> Ok("CatmullRom")
      [] OTHER -> Err(UnsupportedInterpolationMode(interpolation))

map_argument(interpolation) ==
    CASE interpolation = "Linear" -> Ok("Linear")
      [] interpolation = "Cosine" -> Ok("Cosine")
      [] interpolation = "CatmullRom" -> Ok("CatmullRom")
      [] OTHER -> Err(UnsupportedInterpolationMode(interpolation))

\* a sorted key list with one more key, put behind the keys of its time and
\* of earlier times: what a stable sort makes of the list with the key pushed
insert(sorted, key) ==
    LET n == Cardinality({i \in 1..Len(sorted) : sorted[i].t <= key.t})
    IN  SubSeq(sorted, 1, n) \o <<key>> \o SubSeq(sorted, n + 1, Len(sorted))

RECURSIVE sort_by(_)
\* the stable sort by key time
sort_by(list) ==
    IF list = <<>> THEN <<>>
    ELSE insert(sort_by(SubSeq(list, 1, Len(list) - 1)), list[Len(list)])

\* Spline::from_vec sorts the keys it is given
from_vec(list) == sort_by(list)

\* Spline::add pushes the key and sorts
add(spline, key) == insert(spline, key)

\* a sequence without its element of position i
remove(list, i) == SubSeq(list, 1, i - 1) \o SubSeq(list, i + 1, Len(list))

RECURSIVE sort_unstable_by_key(_)
\* sort_unstable_by_key: the keys in an order of non-decreasing time; keys
\* of one time come in any order
sort_unstable_by_key(list) ==
    IF list = <<>> THEN {<<>>}
    ELSE UNION {{<<list[i]>> \o rest :
                    rest \in sort_unstable_by_key(remove(list, i))} :
                i \in {k \in 1..Len(list) :
                          \A j \in 1..Len(list) : list[k].t <= list[j].t}}

create_zero_gradient(key_center, key_other) ==
    Key(to_f32(2 * key_center.t - key_other.t), key_other.value,
        key_center.interpolation)

\* try_new from the sort's result on: the times from the start, the modes
\* mapped (the first key in order with a mode without an arm fails the
\* collect), and the two boundary keys, the trailing one first
construct(sorted) ==
    LET start_time == sorted[1].t
        end_time == sorted[Len(sorted)].t - start_time
        last_key_index == Len(sorted) - 1
        mapped == [i \in 1..Len(sorted) |->
                      map_argument(sorted[i].interpolation)]
        failed == {i \in 1..Len(sorted) : mapped[i].tag = "Err"}
        first_failed == CHOOSE i \in failed : \A j \in failed : i <= j
        spline == from_vec([i \in 1..Len(sorted) |->
                      Key(to_f32(as_secs_f32(sorted[i].t)
                                 - as_secs_f32(start_time)),
                          sorted[i].value, mapped[i].value)])
        with_trailing == add(spline,
                             create_zero_gradient(spline[last_key_index + 1],
                                                  spline[last_key_index]))
        with_leading == add(with_trailing,
                            create_zero_gradient(with_trailing[1],
                                                 with_trailing[2]))
    IN  IF failed # {} THEN Err(mapped[first_failed].error)
        ELSE Ok([spline |-> with_leading, current_time |-> 0,
                 end_time |-> end_time])

\* a check for no key at all: one key gets to the index last_key_index - 1
try_new_of_one_key(list) ==
    IF Len(list) < 1 THEN {Err(TooFewKeysError)}
    ELSE IF Len(list) = 1 THEN {Panic}
    ELSE {construct(sorted) : sorted \in sort_unstable_by_key(list)}

\* the Results try_new can return for this key list
try_new(list) ==
    IF Len(list) < 2 THEN {Err(TooFewKeysError)}
    ELSE {construct(sorted) : sorted \in sort_unstable_by_key(list)}

\* the 0-based indices the binary search of Spline::sample can settle on:
\* any key of the time t if there is one, else the key before the place of t
search_lower_cp(spline, t) ==
    LET len == Len(spline)
        found == {i \in 0..(len - 1) : spline[i + 1].t = t}
        place == Cardinality({i \in 0..(len - 1) : spline[i + 1].t < t})
    IN  IF len < 2 THEN {None}
        ELSE IF found # {}
             THEN {IF i = len - 1 THEN None ELSE Some(i) : i \in found}
        ELSE IF place >= len THEN {None}
        ELSE IF place = 0 THEN {None}
        ELSE {Some(place - 1)}

\* a joint value that is the value of a key
exact(value) == [kind |-> "exact", value |-> value]

\* a joint value that is not a number
NaN == [kind |-> "NaN"]

\* a joint value on the curve of this mode between two keys
between(mode, cp0, cp1, t) ==
    [kind |-> "between", interpolation |-> mode, from |-> cp0.value,
     to |-> cp1.value, elapsed |-> to_f32(t - cp0.t),
     span |-> to_f32(cp1.t - cp0.t)]

\* lerp, cosine and cubic_hermite at the normalized time
\* (t - cp0.t) / (cp1.t - cp0.t): 0 / 0 is not a number, at 0 the curve is at
\* cp0; the tangents of cubic_hermite divide by the time from cpm0 to cp1 and
\* from cp0 to cpm1
interpolate(mode, cpm0, cp0, cp1, cpm1, t) ==
    IF to_f32(cp1.t - cp0.t) = 0 THEN NaN
    ELSE IF mode = "CatmullRom"
            /\ (to_f32(cp1.t - cpm0.t) = 0 \/ to_f32(cpm1.t - cp0.t) = 0)
         THEN NaN
    ELSE IF to_f32(t - cp0.t) = 0 THEN exact(cp0.value)
    ELSE between(mode, cp0, cp1, t)

\* Spline::sample: the Options it can return at the time t
sample(spline, t) ==
    LET len == Len(spline)
        at(option) ==
            IF option = None THEN None
            ELSE LET i == unwrap(option) + 1
                     cp0 == spline[i]
                 IN  IF cp0.interpolation = "CatmullRom"
                     THEN IF i - 1 = 0 \/ i - 1 >= len - 2 THEN None
                          ELSE Some(interpolate("CatmullRom", spline[i - 1],
                                                cp0, spline[i + 1],
                                                spline[i + 2], t))
                     ELSE Some(interpolate(cp0.interpolation, cp0, cp0,
                                           spline[i + 1], spline[i + 1], t))
    IN  {at(option) : option \in search_lower_cp(spline, t)}

create_control_key_error(spline, current_time) ==
    LET before == {i \in 1..Len(spline) :
                      spline[i].t < as_secs_f32(current_time)}
        last == CHOOSE i \in before : \A j \in before : j <= i
        current_control_key == spline[last]
        prior_control_points ==
            Cardinality({i \in 1..Len(spline) :
                \A j \in 1..i : spline[j].t # current_control_key.t})
        following_control_points == Len(spline) - 1 - prior_control_points
    IN  IF before = {} THEN Panic
        ELSE Err(InterpolationControlKeyError(
                     current_control_key.interpolation,
                     prior_control_points, following_control_points))

\* the Results value can return
value(self) ==
    LET options ==
            IF self.current_time >= self.end_time
            THEN {IF Len(self.spline) >= 2
                  THEN Some(exact(self.spline[Len(self.spline) - 1].value))
                  ELSE None}
            ELSE sample(self.spline, as_secs_f32(self.current_time))
    IN  {IF option = None
         THEN create_control_key_error(self.spline, self.current_time)
         ELSE Ok(unwrap(option)) : option \in options}

\* finished only once the clock is past the end
is_finished_past_end(self) == self.current_time > self.end_time

is_finished(self) == self.current_time >= self.end_time

advance_by(self, time_step) ==
    [self EXCEPT !.current_time = self.current_time + time_step]

\* a reset that leaves the clock where it is
reset_keeping_time(self) == self

reset(self) == [self EXCEPT !.current_time = 0]

(***************************************************************************)
(* Construction alone: try_new on every key list of up to MaxKeys keys.    *)
(***************************************************************************)
filter_vars == <<filter, now, called, main_outputs, foot_bumper_values,
                 parameters, history, twin, download>>

\* the key list of these times and modes; the key of position i has value i
key_list(times, modes) ==
    [i \in 1..Len(times) |-> Key(times[i], i, modes[i])]

TryNewTimes == {0, 1}

KeyLists ==
    UNION {{key_list(times, modes) :
               times \in [1..n -> TryNewTimes], modes \in [1..n -> Modes]} :
           n \in 0..MaxKeys}

InitSpline ==
    /\ filter = new([buffer_size |-> 2, obstacle_distance |-> 1,
                     sensor_angle |-> 1])
    /\ parameters \in TwinParameters
    /\ now = 0
    /\ called = NotCalled
    /\ main_outputs = <<>>
    /\ foot_bumper_values = None
    /\ history = NoHistory
    /\ twin = None
    /\ keys = <<>>
    /\ interpolator = NotConstructed
    /\ sampled = NotSampled
    /\ download = NotStarted

\* the one call of try_new of a run, on this key list
New(list) ==
    /\ interpolator = NotConstructed
    /\ keys' = list
    /\ \E result \in try_new(list) : interpolator' = result
    /\ sampled' = NotSampled
    /\ UNCHANGED filter_vars

TryNew == \E list \in KeyLists : New(list)

NextTryNew == TryNew

SpecTryNew == InitSpline /\ [][NextTryNew]_vars

(***************************************************************************)
(* Playback: try_new on a valid key list (2 keys or more, supported modes, *)
(* times in non-decreasing order), then advance_by, value and reset in any *)
(* order. The key times are small ones and ones where f32 has thinned out. *)
(***************************************************************************)
PlayedTimes == {0, F32Exact, F32Exact + 1}

ValidKeyLists ==
    UNION {{key_list(times, modes) :
               times \in {f \in [1..n -> PlayedTimes] :
                             \A i \in 1..(n - 1) : f[i] <= f[i + 1]},
               modes \in [1..n -> SupportedModes]} :
           n \in 2..MaxKeys}

TimeSteps == {1, F32Exact}

TryNewValid == \E list \in ValidKeyLists : New(list)

AdvanceBy ==
    /\ interpolator.tag = "Ok"
    /\ \E time_step \in TimeSteps :
        LET self == advance_by(interpolator.value, time_step)
        IN  /\ self.current_time % F32Exact <= MaxTicks
            /\ self.current_time \div F32Exact <= 1
            /\ interpolator' = Ok(self)
    /\ sampled' = NotSampled
    /\ UNCHANGED <<keys, filter_vars>>

Value ==
    /\ interpolator.tag = "Ok"
    /\ \E result \in value(interpolator.value) : sampled' = result
    /\ UNCHANGED <<keys, interpolator, filter_vars>>

Reset ==
    /\ interpolator.tag = "Ok"
    /\ interpolator' = Ok(reset(interpolator.value))
    /\ sampled' = NotSampled
    /\ UNCHANGED <<keys, filter_vars>>

NextSpline == TryNewValid \/ AdvanceBy \/ Value \/ Reset

SpecSpline == InitSpline /\ [][NextSpline]_vars

(***************************************************************************)
(* Playback with a record of the calls made. twin keeps the interpolator   *)
(* as try_new returned it. history counts the time advance_by was asked to *)
(* advance since try_new or the last reset, the calls of advance_by since  *)
(* try_new and the calls of reset in a row (2 stands for two or more). The *)
(* key lists come in any order, with one supported mode for all keys.      *)
(***************************************************************************)
RecordedKeyLists ==
    UNION {{key_list(times, [i \in 1..n |-> mode]) :
               times \in [1..n -> PlayedTimes], mode \in SupportedModes} :
           n \in 2..MaxKeys}

NoSteps == [steps |-> 0, calls |-> 0, resets |-> 0]

InitRecorded ==
    /\ filter = new([buffer_size |-> 2, obstacle_distance |-> 1,
                     sensor_angle |-> 1])
    /\ parameters \in TwinParameters
    /\ now = 0
    /\ called = NotCalled
    /\ main_outputs = <<>>
    /\ foot_bumper_values = None
    /\ history = NoSteps
    /\ twin = NotConstructed
    /\ keys = <<>>
    /\ interpolator = NotConstructed
    /\ sampled = NotSampled
    /\ download = NotStarted

NewRecorded ==
    /\ interpolator = NotConstructed
    /\ \E list \in RecordedKeyLists :
        /\ keys' = list
        /\ \E result \in try_new(list) :
            /\ interpolator' = result
            /\ twin' = result
    /\ history' = NoSteps
    /\ UNCHANGED <<sampled, filter, now, called, main_outputs,
                   foot_bumper_values, parameters, download>>

AdvanceByRecorded ==
    /\ interpolator.tag = "Ok"
    /\ \E time_step \in TimeSteps :
        LET self == advance_by(interpolator.value, time_step)
        IN  /\ (history.steps + time_step) % F32Exact <= MaxTicks
            /\ (history.steps + time_step) \div F32Exact <= 1
            /\ interpolator' = Ok(self)
            /\ history' = [steps |-> history.steps + time_step,
                           calls |-> IF history.calls < 2
                                     THEN history.calls + 1 ELSE 2,
                           resets |-> 0]
    /\ UNCHANGED <<keys, twin, sampled, filter, now, called, main_outputs,
                   foot_bumper_values, parameters, download>>

ResetRecorded ==
    /\ interpolator.tag = "Ok"
    /\ interpolator' = Ok(reset(interpolator.value))
    /\ history' = [steps |-> 0,
                   calls |-> history.calls,
                   resets |-> IF history.resets < 2
                              THEN history.resets + 1 ELSE 2]
    /\ UNCHANGED <<keys, twin, sampled, filter, now, called, main_outputs,
                   foot_bumper_values, parameters, download>>

NextRecorded == NewRecorded \/ AdvanceByRecorded \/ ResetRecorded

SpecRecorded == InitRecorded /\ [][NextRecorded]_vars

(***************************************************************************)
(* try_new on a key list and on a variant of it: the same keys in another  *)
(* order and with one offset added to all their times. The times of a list *)
(* are pairwise distinct. interpolator is built from the list in keys,     *)
(* twin from the variant, which history keeps; advance_by is called on     *)
(* both.                                                                   *)
(***************************************************************************)
\* key times and offsets: small ones, and an offset where f32 has thinned out
OrderedTimes == 0..(MaxKeys - 1)

Offsets == {0, 1, F32Exact}

\* the key lists with strictly increasing times and supported modes
DistinctKeyLists ==
    UNION {{key_list(times, modes) :
               times \in {f \in [1..n -> OrderedTimes] :
                             \A i \in 1..(n - 1) : f[i] < f[i + 1]},
               modes \in [1..n -> SupportedModes]} :
           n \in 2..MaxKeys}

\* the orders a list of n keys can be handed over in
orders(n) ==
    {order \in [1..n -> 1..n] :
        \A i, j \in 1..n : order[i] = order[j] => i = j}

\* the keys of the list in this order, each this much later
variant(list, order, offset) ==
    [i \in 1..Len(list) |->
        Key(list[order[i]].t + offset, list[order[i]].value,
            list[order[i]].interpolation)]

InitOrdered ==
    /\ filter = new([buffer_size |-> 2, obstacle_distance |-> 1,
                     sensor_angle |-> 1])
    /\ parameters \in TwinParameters
    /\ now = 0
    /\ called = NotCalled
    /\ main_outputs = <<>>
    /\ foot_bumper_values = None
    /\ history = <<>>
    /\ twin = NotConstructed
    /\ keys = <<>>
    /\ interpolator = NotConstructed
    /\ sampled = NotSampled
    /\ download = NotStarted

\* try_new on a list and on a variant of it
TryNewBoth ==
    /\ interpolator = NotConstructed
    /\ \E list \in DistinctKeyLists :
        \E order \in orders(Len(list)), offset \in Offsets :
            /\ keys' = list
            /\ history' = variant(list, order, offset)
            /\ \E result \in try_new(list) : interpolator' = result
            /\ \E result \in try_new(variant(list, order, offset)) :
                twin' = result
    /\ sampled' = NotSampled
    /\ UNCHANGED <<filter, now, called, main_outputs, foot_bumper_values,
                   parameters, download>>

\* advance_by of one second on both interpolators
AdvanceBoth ==
    /\ interpolator.tag = "Ok"
    /\ twin.tag = "Ok"
    /\ interpolator.value.current_time < MaxTicks
    /\ interpolator' = Ok(advance_by(interpolator.value, 1))
    /\ twin' = Ok(advance_by(twin.value, 1))
    /\ sampled' = NotSampled
    /\ UNCHANGED <<keys, history, filter, now, called, main_outputs,
                   foot_bumper_values, parameters, download>>

NextOrdered == TryNewBoth \/ AdvanceBoth

SpecOrdered == InitOrdered /\ [][NextOrdered]_vars

RECURSIVE try_from_keys(_, _, _)
\* lines 76-86: the key of the initial positions at 0, then one key per
\* frame at the time the durations so far add up to, all of them Linear
try_from_keys(motion_file, done, current_time) ==
    IF done = Len(motion_file.frames)
    THEN <<>>
    ELSE LET frame == motion_file.frames[done + 1]
         IN  <<Key(current_time + frame.duration, frame.positions, "Linear")>>
             \o try_from_keys(motion_file, done + 1,
                              current_time + frame.duration)

\* the keys try_from hands to try_new
motion_keys(motion_file) ==
    <<Key(0, motion_file.initial_positions, "Linear")>>
        \o try_from_keys(motion_file, 0, 0)

\* TryFrom<MotionFile>::try_from (lines 75-89)
try_from(motion_file) == try_new(motion_keys(motion_file))

(***************************************************************************)
(* Playback of a motion file: try_from, then advance_by and value. The     *)
(* initial positions are the value 1, the positions of frame i the value   *)
(* i + 1. history keeps the motion file and the time advance_by was asked  *)
(* to advance in all.                                                      *)
(***************************************************************************)
\* the duration of a frame: none, a second, and one where f32 has thinned out
FrameDurations == {0, 1, F32Exact}

MotionFiles ==
    UNION {{[initial_positions |-> 1,
             frames |-> [i \in 1..n |->
                            [duration |-> durations[i], positions |-> i + 1]]] :
               durations \in [1..n -> FrameDurations]} :
           n \in 0..(MaxKeys - 1)}

NoMotion == [motion_file |-> [initial_positions |-> 1, frames |-> <<>>],
             steps |-> 0]

InitMotion ==
    /\ filter = new([buffer_size |-> 2, obstacle_distance |-> 1,
                     sensor_angle |-> 1])
    /\ parameters \in TwinParameters
    /\ now = 0
    /\ called = NotCalled
    /\ main_outputs = <<>>
    /\ foot_bumper_values = None
    /\ history = NoMotion
    /\ twin = None
    /\ keys = <<>>
    /\ interpolator = NotConstructed
    /\ sampled = NotSampled
    /\ download = NotStarted

TryFrom ==
    /\ interpolator = NotConstructed
    /\ \E motion_file \in MotionFiles :
        /\ keys' = motion_keys(motion_file)
        /\ \E result \in try_from(motion_file) : interpolator' = result
        /\ history' = [motion_file |-> motion_file, steps |-> 0]
    /\ sampled' = NotSampled
    /\ UNCHANGED <<twin, filter, now, called, main_outputs,
                   foot_bumper_values, parameters, download>>

AdvanceByMotion ==
    /\ interpolator.tag = "Ok"
    /\ \E time_step \in TimeSteps :
        /\ (history.steps + time_step) % F32Exact <= MaxTicks
        /\ (history.steps + time_step) \div F32Exact <= MaxKeys - 1
        /\ interpolator' = Ok(advance_by(interpolator.value, time_step))
        /\ history' = [history EXCEPT !.steps = @ + time_step]
    /\ sampled' = NotSampled
    /\ UNCHANGED <<keys, twin, filter, now, called, main_outputs,
                   foot_bumper_values, parameters, download>>

ValueMotion ==
    /\ interpolator.tag = "Ok"
    /\ \E result \in value(interpolator.value) : sampled' = result
    /\ UNCHANGED <<keys, interpolator, history, twin, filter, now, called,
                   main_outputs, foot_bumper_values, parameters, download>>

NextMotion == TryFrom \/ AdvanceByMotion \/ ValueMotion

SpecMotion == InitMotion /\ [][NextMotion]_vars

(***************************************************************************)
(* download_with_fallback (crates/repository/src/lib.rs:484-514): one curl *)
(* command per URL, awaited before the next is spawned. download keeps the *)
(* URLs of the call, the commands run so far with how each ended, the      *)
(* fallback lines printed and the Result, once the function has returned.  *)
(* How a command ends is up to the network and the system: it exits        *)
(* successfully, exits unsuccessfully, or cannot be spawned.               *)
(***************************************************************************)
\* the URL lists have at most MaxUrls entries
MaxUrls == 3

Urls == {"first", "second", "third"}

UrlLists == UNION {[1..n -> Urls] : n \in 0..MaxUrls}

\* status().await: the exit status of curl, or the error of the spawn
Statuses == {"success", "failure", "failed to spawn command"}

\* the function has not returned
Running == [tag |-> "Running"]

\* the call up to its first await: the loop is entered, or left at once
\* for no URL (line 513)
download_with_fallback(urls) ==
    [tag |-> "Started", urls |-> urls, attempts |-> <<>>, printed |-> <<>>,
     result |-> IF urls = <<>> THEN Err("curl exited with error")
                ELSE Running]

\* a loop that goes on to the next URL after a success too
attempt_every_url(self, status) ==
    LET i == Len(self.attempts)
        url == self.urls[i + 1]
        attempted ==
            [self EXCEPT !.attempts = Append(@, [url |-> url, status |-> status]),
                         !.printed = IF i > 0 THEN Append(@, url) ELSE @]
    IN  IF status = "failed to spawn command"
        THEN [attempted EXCEPT !.result = Err("failed to spawn command")]
        ELSE IF i + 1 < Len(self.urls) THEN attempted
        ELSE IF status = "success"
        THEN [attempted EXCEPT !.result = Ok(<<>>)]
        ELSE [attempted EXCEPT !.result = Err("curl exited with error")]

\* lines 489-513: one turn of the loop, for the URL of index i, whose curl
\* ends with this status; after the last URL the function bails
attempt(self, status) ==
    LET i == Len(self.attempts)
        url == self.urls[i + 1]
        attempted ==
            [self EXCEPT !.attempts = Append(@, [url |-> url, status |-> status]),
                         !.printed = IF i > 0 THEN Append(@, url) ELSE @]
    IN  IF status = "failed to spawn command"
        THEN [attempted EXCEPT !.result = Err("failed to spawn command")]
        ELSE IF status = "success"
        THEN [attempted EXCEPT !.result = Ok(<<>>)]
        ELSE IF i + 1 < Len(self.urls) THEN attempted
        ELSE [attempted EXCEPT !.result = Err("curl exited with error")]

control_vars == <<filter, now, called, main_outputs, foot_bumper_values,
                  parameters, history, twin, keys, interpolator, sampled>>

InitDownload ==
    /\ filter = new([buffer_size |-> 2, obstacle_distance |-> 1,
                     sensor_angle |-> 1])
    /\ parameters \in TwinParameters
    /\ now = 0
    /\ called = NotCalled
    /\ main_outputs = <<>>
    /\ foot_bumper_values = None
    /\ history = NoHistory
    /\ twin = None
    /\ keys = <<>>
    /\ interpolator = NotConstructed
    /\ sampled = NotSampled
    /\ download = NotStarted

\* the call of download_with_fallback
Download ==
    /\ download = NotStarted
    /\ \E urls \in UrlLists : download' = download_with_fallback(urls)
    /\ UNCHANGED control_vars

\* the curl of the next URL ends
Attempt ==
    /\ download # NotStarted
    /\ download.result = Running
    /\ \E status \in Statuses : download' = attempt(download, status)
    /\ UNCHANGED control_vars

NextDownload == Download \/ Attempt

SpecDownload == InitDownload /\ [][NextDownload]_vars

(***************************************************************************)
(* Claims about SplineInterpolator::try_new, checked under SpecTryNew.     *)
(***************************************************************************)
tried == interpolator # NotConstructed

unsupported_keys == {i \in 1..Len(keys) : keys[i].interpolation \notin
                                          {"Linear", "Cosine", "CatmullRom"}}

\* C8: try_new on a key list of length 0 or 1 returns Err(TooFewKeysError),
\* whatever the mode of the key, and so returns no interpolator.
C8_TooFewKeys ==
    (tried /\ Len(keys) < 2) => interpolator = Err(TooFewKeysError)

\* try_new has refused a list of one key of a supported mode
C8_Witness ==
    /\ tried
    /\ Len(keys) = 1
    /\ unsupported_keys = {}
    /\ interpolator = Err(TooFewKeysError)

\* C9: on a key list of 2 keys or more, try_new returns Ok iff every key has
\* one of the modes Linear, Cosine, CatmullRom; else it returns
\* Err(UnsupportedInterpolationMode) whose interpolation_mode is the mode of
\* a key of the list that has none of these three modes.
C9_SupportedModesOnly ==
    (tried /\ Len(keys) >= 2) =>
        /\ interpolator.tag = "Ok" <=> unsupported_keys = {}
        /\ unsupported_keys # {} =>
            /\ interpolator.tag = "Err"
            /\ interpolator.error.kind = "UnsupportedInterpolationMode"
            /\ \E i \in unsupported_keys :
                interpolator.error.interpolation_mode = keys[i].interpolation

\* try_new has refused a list of supported keys and a Bezier key for the
\* Bezier key, which is not the first key of the list
C9_Witness ==
    /\ tried
    /\ Len(keys) >= 2
    /\ keys[1].interpolation = "Cosine"
    /\ keys[1].t < keys[2].t
    /\ unsupported_keys = {2}
    /\ keys[2].interpolation = "Bezier"
    /\ interpolator = Err(UnsupportedInterpolationMode("Bezier"))

(***************************************************************************)
(* Claims about playback, checked under SpecSpline.                        *)
(***************************************************************************)
\* C10: value called right after try_new has succeeded on a valid key list
\* (playback time 0) returns Ok of exactly the value of the first key.
C10_FirstValueIsFirstKey ==
    (/\ interpolator.tag = "Ok"
     /\ interpolator.value.current_time = 0
     /\ sampled # NotSampled)
        => sampled = Ok(exact(keys[1].value))

(***************************************************************************)
(* Claims about reset, advance_by and is_finished, checked under           *)
(* SpecRecorded.                                                           *)
(***************************************************************************)
\* C11: after advance_by calls, reset leaves the interpolator as try_new
\* returned it: playback time 0, the same spline keys and the same end_time,
\* so value and is_finished return what they returned right after try_new;
\* a second reset in a row leaves the same interpolator again.
C11_ResetRestoresConstruction ==
    history.resets >= 1 =>
        /\ interpolator.value.current_time = 0
        /\ interpolator.value.spline = twin.value.spline
        /\ interpolator.value.end_time = twin.value.end_time
        /\ value(interpolator.value) = value(twin.value)
        /\ is_finished(interpolator.value) <=> is_finished(twin.value)
        /\ interpolator = twin

\* reset was called twice in a row after two calls of advance_by, on an
\* interpolator whose playback takes time
C11_Witness ==
    /\ history.resets = 2
    /\ history.calls = 2
    /\ interpolator.value.end_time > 0
    /\ interpolator = twin

least_key_time == CHOOSE t \in {keys[i].t : i \in 1..Len(keys)} :
                      \A i \in 1..Len(keys) : t <= keys[i].t

greatest_key_time == CHOOSE t \in {keys[i].t : i \in 1..Len(keys)} :
                         \A i \in 1..Len(keys) : keys[i].t <= t

\* C12: is_finished is true iff the steps of advance_by since try_new or the
\* last reset sum to at least the greatest key time minus the least key time
\* of the list handed to try_new; the playback time is that sum, past the
\* duration too (advance_by does not clamp it).
C12_FinishedIffStepsReachDuration ==
    interpolator.tag = "Ok" =>
        /\ is_finished(interpolator.value)
               <=> history.steps >= greatest_key_time - least_key_time
        /\ interpolator.value.current_time = history.steps

\* advance_by has taken the playback time past the duration of a list that
\* was not handed over in time order, and is_finished is true
C12_Witness ==
    /\ interpolator.tag = "Ok"
    /\ keys[1].t > keys[2].t
    /\ greatest_key_time - least_key_time > 0
    /\ history.steps > greatest_key_time - least_key_time
    /\ interpolator.value.current_time = history.steps
    /\ is_finished(interpolator.value)

(***************************************************************************)
(* Claims about value, checked under SpecSpline, whose key lists are in    *)
(* time order: the final keyframe is the last key of the list.             *)
(***************************************************************************)
\* C13: whenever is_finished is true, value returns Ok of exactly the value
\* of the final keyframe of the list, not the value of a boundary key or of
\* another key, and no value between keys.
C13_FinishedValueIsFinalKey ==
    (/\ interpolator.tag = "Ok"
     /\ is_finished(interpolator.value)
     /\ sampled # NotSampled)
        => sampled = Ok(exact(keys[Len(keys)].value))

\* the playback time as value hands it to Spline::sample
sample_time == as_secs_f32(interpolator.value.current_time)

spline_keys == interpolator.value.spline

\* C14: when value returns no joint values it returns
\* Err(InterpolationControlKeyError) with the mode of the key active at the
\* playback time (the last spline key not after it), keys_before = the number
\* of spline keys of a time strictly before the playback time and keys_after =
\* the number of spline keys of a time strictly after it; it does not panic.
C14_ControlKeyErrorFields ==
    (/\ interpolator.tag = "Ok"
     /\ sampled # NotSampled
     /\ sampled.tag # "Ok")
        => /\ sampled.tag = "Err"
           /\ sampled.error.kind = "InterpolationControlKeyError"
           /\ \E i \in 1..Len(spline_keys) :
               /\ spline_keys[i].t <= sample_time
               /\ \A j \in 1..Len(spline_keys) :
                   spline_keys[j].t <= sample_time
                       => spline_keys[j].t <= spline_keys[i].t
               /\ sampled.error.interpolation_mode
                      = spline_keys[i].interpolation
           /\ sampled.error.keys_before
                  = Cardinality({i \in 1..Len(spline_keys) :
                                    spline_keys[i].t < sample_time})
           /\ sampled.error.keys_after
                  = Cardinality({i \in 1..Len(spline_keys) :
                                    spline_keys[i].t > sample_time})

(***************************************************************************)
(* Claims about the debounce of FootBumperFilter, checked under SpecLogged.*)
(***************************************************************************)
\* the last call was an enabled one
logged_enabled == history # None /\ unwrap(history).input.enabled

\* the filter of the last call after its press/release step (lines 94-113)
after_press ==
    press_right(press_left(unwrap(history).before,
                           unwrap(history).input.touch_sensors,
                           unwrap(history).t_now),
                unwrap(history).input.touch_sensors, unwrap(history).t_now)

\* the last-activation time is older than acceptance_duration at elapsed()
window_over(time) ==
    /\ time # None
    /\ unwrap(history).t_elapsed - unwrap(time)
           > parameters.acceptance_duration

\* C15: on an enabled cycle, a side that after the press/release step has a
\* last-activation time more than acceptance_duration before the clock read
\* ends the cycle with count 0, no last-activation time and the pressed flag
\* false; a side with no such time or one within acceptance_duration ends
\* the cycle with count, time and flag as the press/release step left them.
C15_DecayAfterWindow ==
    logged_enabled =>
        /\ IF window_over(after_press.last_left_time)
           THEN /\ filter.left_count = 0
                /\ filter.last_left_time = None
                /\ ~filter.left_pressed_last_cycle
           ELSE /\ filter.left_count = after_press.left_count
                /\ filter.last_left_time = after_press.last_left_time
                /\ filter.left_pressed_last_cycle
                       = after_press.left_pressed_last_cycle
        /\ IF window_over(after_press.last_right_time)
           THEN /\ filter.right_count = 0
                /\ filter.last_right_time = None
                /\ ~filter.right_pressed_last_cycle
           ELSE /\ filter.right_count = after_press.right_count
                /\ filter.last_right_time = after_press.last_right_time
                /\ filter.right_pressed_last_cycle
                       = after_press.right_pressed_last_cycle

\* the left side, held pressed with count 2, has decayed while the right side,
\* at the very end of its window, has not
C15_Witness ==
    /\ logged_enabled
    /\ window_over(after_press.last_left_time)
    /\ after_press.left_count = 2
    /\ after_press.left_pressed_last_cycle
    /\ filter.left_count = 0
    /\ after_press.last_right_time # None
    /\ unwrap(history).t_elapsed - unwrap(after_press.last_right_time)
           = parameters.acceptance_duration
    /\ filter.right_count = 1

\* what the last call read: a side is pressed iff one of its two touch
\* sensors is
left_reads_pressed ==
    \/ unwrap(history).input.touch_sensors.left_foot_left
    \/ unwrap(history).input.touch_sensors.left_foot_right

right_reads_pressed ==
    \/ unwrap(history).input.touch_sensors.right_foot_left
    \/ unwrap(history).input.touch_sensors.right_foot_right

\* count, last-activation time and pressed flag of a side
left_side(f) ==
    <<f.left_count, f.last_left_time, f.left_pressed_last_cycle>>

right_side(f) ==
    <<f.right_count, f.last_right_time, f.right_pressed_last_cycle>>

\* what the claim lets one enabled cycle make of a side that was `side`
\* before it and reads `pressed`: count + 1 and the current time on a press
\* edge, nothing but the flag otherwise, and all cleared if the decay is due
debounced(side, pressed) ==
    LET edge == pressed /\ ~side[3]
        stepped == IF edge
                   THEN <<side[1] + 1, Some(unwrap(history).t_now), TRUE>>
                   ELSE <<side[1], side[2], pressed>>
    IN  IF window_over(stepped[2]) THEN <<0, None, FALSE>> ELSE stepped

\* C17: on an enabled cycle a side's count goes up by exactly 1, with the
\* current time as last-activation time, iff the side reads pressed and its
\* pressed flag was false; a side that reads pressed and was pressed keeps
\* count and time; a side that reads unpressed loses the pressed flag and
\* keeps count and time; the one other change is the decay's reset to 0. A
\* side reads pressed iff one of its two touch sensors is true.
C17_CountChangesOnEdgeOrDecay ==
    logged_enabled =>
        /\ left_side(filter)
               = debounced(left_side(unwrap(history).before),
                           left_reads_pressed)
        /\ right_side(filter)
               = debounced(right_side(unwrap(history).before),
                           right_reads_pressed)

\* the left side, held pressed by one of its sensors, has kept its count
\* and time; the right side, released, has kept its count and time and lost
\* its flag
C17_Witness ==
    /\ logged_enabled
    /\ ~unwrap(history).input.touch_sensors.left_foot_left
    /\ unwrap(history).input.touch_sensors.left_foot_right
    /\ unwrap(history).before.left_pressed_last_cycle
    /\ filter.left_count = 1
    /\ filter.last_left_time = unwrap(history).before.last_left_time
    /\ ~right_reads_pressed
    /\ unwrap(history).before.right_pressed_last_cycle
    /\ filter.right_count = 1
    /\ filter.last_right_time = unwrap(history).before.last_right_time
    /\ ~filter.right_pressed_last_cycle

\* the side went from a count c >= 1 to c + 1 in the last call, and its
\* last-activation time before the call was within acceptance_duration of the
\* time of the call
within_window(before, after) ==
    (before[1] >= 1 /\ after[1] = before[1] + 1)
        => unwrap(history).t_now - unwrap(before[2])
               <= parameters.acceptance_duration

\* C18: whenever an enabled cycle raises a side's count from c >= 1 to c + 1,
\* the current time minus the side's last-activation time before the cycle is
\* at most acceptance_duration: press edges add up inside the acceptance
\* window only.
C18_EdgesAddUpInsideWindow ==
    logged_enabled =>
        /\ within_window(left_side(unwrap(history).before), left_side(filter))
        /\ within_window(right_side(unwrap(history).before),
                         right_side(filter))

\* a buffer after one more enabled cycle that ended with this pressed flag:
\* the flag appended, the oldest entry evicted
shifted(buffer, flag) == Tail(Append(buffer, flag))

\* C19: each side's detection buffer has exactly buffer_size entries in every
\* state, all false after construction; an enabled cycle appends the side's
\* pressed flag as it stands after the decay step and evicts the oldest
\* entry, and no other call changes the buffer, so the buffer holds the flags
\* of the last buffer_size enabled cycles in order.
C19_BufferHoldsLastFlags ==
    /\ Len(filter.left_detection_buffer) = twin.buffer_size
    /\ Len(filter.right_detection_buffer) = twin.buffer_size
    /\ history = None =>
        \A i \in 1..twin.buffer_size :
            /\ ~filter.left_detection_buffer[i]
            /\ ~filter.right_detection_buffer[i]
    /\ logged_enabled =>
        /\ filter.left_detection_buffer
               = shifted(unwrap(history).before.left_detection_buffer,
                         filter.left_pressed_last_cycle)
        /\ filter.right_detection_buffer
               = shifted(unwrap(history).before.right_detection_buffer,
                         filter.right_pressed_last_cycle)
    /\ (history # None /\ ~logged_enabled) =>
        /\ filter.left_detection_buffer
               = unwrap(history).before.left_detection_buffer
        /\ filter.right_detection_buffer
               = unwrap(history).before.right_detection_buffer

\* an enabled cycle whose decay cleared the left flag of a press edge held
\* since the cycle before: the buffer of 2 holds that cycle's flag, then false
C19_Witness ==
    /\ logged_enabled
    /\ twin.buffer_size = 2
    /\ left_reads_pressed
    /\ unwrap(history).before.left_detection_buffer = <<FALSE, TRUE>>
    /\ ~filter.left_pressed_last_cycle
    /\ filter.left_detection_buffer = <<TRUE, FALSE>>

(***************************************************************************)
(* A claim about check_for_bumper_errors, checked under SpecFilter.        *)
(***************************************************************************)
\* a true-count strictly between the two thresholds
in_band(buffer) ==
    /\ reset_threshold < true_count(buffer)
    /\ true_count(buffer) < defective_threshold

\* the true-count went from one threshold to the other
crosses(buffer_before, buffer_after) ==
    \/ /\ true_count(buffer_before) >= defective_threshold
       /\ true_count(buffer_after) <= reset_threshold
    \/ /\ true_count(buffer_before) <= reset_threshold
       /\ true_count(buffer_after) >= defective_threshold

\* C20: with the reset threshold below the defective threshold, an enabled
\* cycle that ends with a side's true-count strictly between the two leaves
\* the side's in-use flag as it was; and if the flag changed in an enabled
\* cycle and changes again in the next, an enabled one too, the true-count
\* went from one threshold to the other between the two.
C20_Hysteresis ==
    [][(called'.enabled /\ reset_threshold < defective_threshold) =>
        /\ in_band(filter'.left_detection_buffer)
            => filter'.left_in_use = filter.left_in_use
        /\ in_band(filter'.right_detection_buffer)
            => filter'.right_in_use = filter.right_in_use
        /\ (/\ called.enabled
            /\ called.left_was_in_use # filter.left_in_use
            /\ filter.left_in_use # filter'.left_in_use)
            => crosses(filter.left_detection_buffer,
                       filter'.left_detection_buffer)
        /\ (/\ called.enabled
            /\ called.right_was_in_use # filter.right_in_use
            /\ filter.right_in_use # filter'.right_in_use)
            => crosses(filter.right_detection_buffer,
                       filter'.right_detection_buffer)]_vars

\* an enabled cycle has left the left side out of use with a true-count
\* strictly between the thresholds
C20_Witness ==
    /\ called.enabled
    /\ reset_threshold < defective_threshold
    /\ in_band(filter.left_detection_buffer)
    /\ ~called.left_was_in_use
    /\ ~filter.left_in_use

(***************************************************************************)
(* Claims about the keys of the spline, checked under SpecSpline.          *)
(***************************************************************************)
\* the user keys as the spline holds them: the time from the first key on,
\* as f32, for the keys of the list in this order
user_keys(order) ==
    [i \in 1..Len(keys) |->
        Key(to_f32(to_f32(keys[order[i]].t) - to_f32(keys[1].t)),
            keys[order[i]].value, keys[order[i]].interpolation)]

\* the orders of the list that are orders of non-decreasing time
time_orders ==
    {order \in [1..Len(keys) -> 1..Len(keys)] :
        /\ \A i, j \in 1..Len(keys) : i # j => order[i] # order[j]
        /\ \A i \in 1..(Len(keys) - 1) :
            keys[order[i]].t <= keys[order[i + 1]].t}

\* the spline is these user keys with the two boundary keys among them
holds_with_boundary_keys(user) ==
    LET n == Len(user)
        leading == Key(2 * user[1].t - user[2].t, user[2].value,
                       user[1].interpolation)
        trailing == Key(2 * user[n].t - user[n - 1].t, user[n - 1].value,
                        user[n].interpolation)
    IN  /\ Len(spline_keys) = n + 2
        /\ \E at_leading, at_trailing \in 1..(n + 2) :
            /\ at_leading # at_trailing
            /\ spline_keys[at_leading] = leading
            /\ spline_keys[at_trailing] = trailing
            /\ \E rest \in [1..n -> 1..(n + 2) \ {at_leading, at_trailing}] :
                /\ \A i \in 1..(n - 1) : rest[i] < rest[i + 1]
                /\ \A i \in 1..n : spline_keys[rest[i]] = user[i]
        /\ leading.t <= 0
        /\ trailing.t >= interpolator.value.end_time

\* C16: after try_new has succeeded on n keys the spline holds n + 2 keys: the
\* n user keys, a leading key at 2 * first.t - second.t with the second key's
\* value and the first key's mode, and a trailing key at
\* 2 * last.t - previous.t with the previous key's value and the last key's
\* mode; the leading key's time is <= 0, the trailing key's time is >=
\* end_time, and end_time is the last minus the first user key time.
C16_BoundaryKeys ==
    interpolator.tag = "Ok" =>
        /\ \E order \in time_orders : holds_with_boundary_keys(user_keys(order))
        /\ interpolator.value.end_time = keys[Len(keys)].t - keys[1].t

(***************************************************************************)
(* Claims about the points and the sides of FootBumperFilter, checked      *)
(* under SpecFilter, whose filters are built with sensor_angle 0 or 1 and  *)
(* cycled with sensor_angle 0.                                             *)
(***************************************************************************)
\* the three points of a filter
geometry(f) == <<f.left_point, f.right_point, f.middle_point>>

\* the points new derives from some CreationContext
constructed_geometry == {geometry(new(c)) : c \in CreationContext}

\* C21: no call of cycle, enabled or not, changes left_point, right_point
\* or middle_point, whatever obstacle_distance and sensor_angle its context
\* carries: they stay the points new derived; and every position the call
\* reports is one of the three points the filter had before the call.
C21_GeometryIsFixed ==
    [][/\ geometry(filter') = geometry(filter)
       /\ geometry(filter') \in constructed_geometry
       /\ \A i \in DOMAIN main_outputs' :
            main_outputs'[i].position_in_robot
                \in {filter.left_point, filter.right_point,
                     filter.middle_point}]_vars

\* a filter built with sensor_angle 1 has reported its left point in a cycle
\* whose context carries sensor_angle 0
C21_Witness ==
    /\ called.enabled
    /\ parameters.sensor_angle = 0
    /\ filter.left_point = point(3, 4)
    /\ filter.left_point # new([buffer_size |-> 2,
                                obstacle_distance |-> parameters.obstacle_distance,
                                sensor_angle |-> parameters.sensor_angle]).left_point
    /\ main_outputs = <<[position_in_robot |-> filter.left_point]>>

(***************************************************************************)
(* A claim about the two sides, checked under SpecSides.                   *)
(***************************************************************************)
\* C22: two runs from the same filter, with the same parameters, clock
\* reads, enabled flags and left sensor readings, have after every cycle the
\* same left count, left last-activation time, left pressed flag, left
\* buffer and left in-use flag, whatever their right sensors read; and the
\* same with left and right exchanged.
C22_SidesAreIndependent ==
    /\ history = "left" => left_side(filter) = left_side(twin.filter)
                           /\ filter.left_detection_buffer
                                = twin.filter.left_detection_buffer
                           /\ filter.left_in_use = twin.filter.left_in_use
    /\ history = "right" => right_side(filter) = right_side(twin.filter)
                            /\ filter.right_detection_buffer
                                = twin.filter.right_detection_buffer
                            /\ filter.right_in_use = twin.filter.right_in_use

\* the runs share the left sensors; the left side has counted in both, is
\* out of use in both, and the right sides differ in count, buffer and use
C22_Witness ==
    /\ history = "left"
    /\ called.enabled
    /\ filter.left_count >= 1
    /\ ~filter.left_in_use
    /\ filter.right_count # twin.filter.right_count
    /\ filter.right_in_use # twin.filter.right_in_use
    /\ main_outputs # twin.main_outputs

(***************************************************************************)
(* A claim about the decay of a side, checked under SpecDecay.             *)
(***************************************************************************)
\* count 0, no last-activation time, not detected
neutral(side) ==
    IF side = "left"
    THEN /\ filter.left_count = 0
         /\ filter.last_left_time = None
         /\ ~(filter.left_count >= parameters.activations_needed)
    ELSE /\ filter.right_count = 0
         /\ filter.last_right_time = None
         /\ ~(filter.right_count >= parameters.activations_needed)

\* C23: once a side reads unpressed on every cycle, with enabled cycles that
\* keep occurring and a clock that keeps advancing, its count is eventually
\* 0, its last-activation time absent and its detection flag false, and
\* that stays so while the side reads unpressed.
C23_DecayToNeutral ==
    /\ (history.phase = "quiet") ~> neutral(history.side)
    /\ [][(history.phase = "quiet" /\ neutral(history.side))
            => neutral(history.side)']_vars

\* a side that was detected (two activations) when the quiet phase began is
\* neutral after an enabled cycle
C23_Witness ==
    /\ history.phase = "quiet"
    /\ history.quiet_from >= parameters.activations_needed
    /\ called.enabled
    /\ neutral(history.side)

(***************************************************************************)
(* A claim about the order and the offset of the keys, checked under       *)
(* SpecOrdered.                                                            *)
(***************************************************************************)
\* the variant has the keys of the list, in some order
same_times == \A i \in 1..Len(keys) :
                \E j \in 1..Len(keys) : history[j] = keys[i]

\* C24: for keys of pairwise distinct times, try_new gives the same
\* interpolator (spline keys, total duration, every sample) for the keys in
\* any order and with any one offset added to all their times; the earliest
\* key is at the spline time 0 and the total duration is the greatest minus
\* the smallest key time.
C24_OrderAndOffsetDoNotMatter ==
    interpolator.tag = "Ok" =>
        /\ twin = interpolator
        /\ value(twin.value) = value(interpolator.value)
        /\ \E i \in 1..Len(interpolator.value.spline) :
            /\ interpolator.value.spline[i].t = 0
            /\ interpolator.value.spline[i].value = keys[1].value
        /\ interpolator.value.end_time = keys[Len(keys)].t - keys[1].t

\* the part of C24 on the order: the variant is the list in another order
C24_OrderDoesNotMatter ==
    (interpolator.tag = "Ok" /\ same_times) =>
        /\ twin = interpolator
        /\ value(twin.value) = value(interpolator.value)

(***************************************************************************)
(* A claim about the conversion of a motion file, checked under            *)
(* SpecMotion.                                                             *)
(***************************************************************************)
\* try_from has been called
converted == interpolator # NotConstructed

frames == history.motion_file.frames

RECURSIVE total(_, _)
\* the durations of the first n frames added up
total(list, n) == IF n = 0 THEN 0 ELSE total(list, n - 1) + list[n].duration

\* C25: the conversion of a motion file with n >= 1 frames succeeds, all
\* its keys are Linear and sit at 0, d1, d1 + d2, ...; the interpolator is
\* finished exactly when the time advanced in all is at least d1 + ... + dn,
\* and its sample is then the positions of the last frame; with no frame the
\* conversion fails with TooFewKeysError.
C25_MotionFileConversion ==
    converted =>
        IF Len(frames) = 0
        THEN interpolator = Err(TooFewKeysError)
        ELSE /\ interpolator.tag = "Ok"
             /\ Len(keys) = Len(frames) + 1
             /\ \A i \in 1..Len(keys) :
                    /\ keys[i].interpolation = "Linear"
                    /\ keys[i].t = total(frames, i - 1)
             /\ \A i \in 1..Len(interpolator.value.spline) :
                    interpolator.value.spline[i].interpolation = "Linear"
             /\ is_finished(interpolator.value)
                    <=> history.steps >= total(frames, Len(frames))
             /\ (is_finished(interpolator.value) /\ sampled # NotSampled)
                    => sampled = Ok(exact(frames[Len(frames)].positions))

\* C25 for frames that take time
C25_LastingFrames ==
    (converted /\ \A i \in 1..Len(frames) : frames[i].duration > 0)
        => C25_MotionFileConversion

(***************************************************************************)
(* A claim about the control keys of value, checked under SpecSpline.      *)
(***************************************************************************)
\* the key list has strictly increasing times
strictly_increasing ==
    \A i \in 1..(Len(keys) - 1) : keys[i].t < keys[i + 1].t

\* C26: for a key list of 2 keys or more with strictly increasing times and
\* supported modes, CatmullRom on 2 keys included, every call of value after
\* any calls of advance_by and reset returns Ok: the two boundary keys give
\* every segment the control keys its mode needs.
C26_ValueIsOk ==
    (interpolator.tag = "Ok" /\ strictly_increasing /\ sampled # NotSampled)
        => sampled.tag = "Ok"

\* C26 for key times and playback times that f32 holds exactly
C26_ValueIsOkForExactTimes ==
    (/\ interpolator.tag = "Ok"
     /\ strictly_increasing
     /\ \A i \in 1..Len(keys) : as_secs_f32(keys[i].t) = keys[i].t
     /\ as_secs_f32(interpolator.value.current_time)
            = interpolator.value.current_time
     /\ sampled # NotSampled)
        => sampled.tag = "Ok"

(***************************************************************************)
(* A claim about the fall state, checked under SpecFall.                   *)
(***************************************************************************)
\* C27: the fall state has no part in the update of the filter: after the
\* same calls at the same times a run with any fall states has the same
\* counts, times, pressed flags, buffers and in-use flags as the run of an
\* upright robot, and its enabled cycles with an upright robot return what
\* the upright run returns, so what was counted while the robot was not
\* upright is reported by the next upright cycle unless it has decayed.
C27_FallStateGatesOutputOnly ==
    /\ filter = twin.filter
    /\ (called.enabled /\ called.fall_state = "Upright")
        => main_outputs = twin.main_outputs

\* the cycle before was one of a robot not upright in which the upright run
\* reported an obstacle; this cycle is upright and reports it
C27_Witness ==
    /\ called.enabled
    /\ called.fall_state = "Upright"
    /\ history.suppressed_before
    /\ main_outputs # <<>>
    /\ filter.left_count >= parameters.activations_needed

(***************************************************************************)
(* A claim about the fields of a side, checked under SpecFilter.           *)
(***************************************************************************)
\* C28: in every state from construction on, each side's activation count
\* is at least 0, it is 0 exactly when the side has no last-activation
\* time, and a side whose pressed-last-cycle flag is set has a count of at
\* least 1.
C28_CountTimeAndFlagAgree ==
    /\ filter.left_count >= 0
    /\ filter.right_count >= 0
    /\ filter.left_count = 0 <=> filter.last_left_time = None
    /\ filter.right_count = 0 <=> filter.last_right_time = None
    /\ filter.left_pressed_last_cycle => filter.left_count >= 1
    /\ filter.right_pressed_last_cycle => filter.right_count >= 1

\* the left side has counted two activations and was released, the right
\* side is held at its first
C28_Witness ==
    /\ called.enabled
    /\ filter.left_count = 2
    /\ ~filter.left_pressed_last_cycle
    /\ filter.last_left_time # None
    /\ filter.right_pressed_last_cycle
    /\ filter.right_count = 1

(***************************************************************************)
(* A claim about download_with_fallback, checked under SpecDownload.       *)
(***************************************************************************)
started == download # NotStarted

\* the statuses of the commands run so far
statuses == [k \in 1..Len(download.attempts) |-> download.attempts[k].status]

\* C29: download_with_fallback runs the commands for the URLs in the order
\* given, one after the other; a URL is tried only after the commands of all
\* URLs before it have exited unsuccessfully; it returns Ok at the first
\* command that exits successfully and tries no URL after it; it returns an
\* error when the commands of all URLs have exited unsuccessfully and when
\* there is no URL.
C29_FallbackInOrder ==
    started =>
        /\ Len(download.attempts) <= Len(download.urls)
        /\ \A k \in 1..Len(download.attempts) :
            /\ download.attempts[k].url = download.urls[k]
            /\ \A j \in 1..(k - 1) : statuses[j] = "failure"
        /\ download.result = Ok(<<>>)
            <=> (/\ download.attempts # <<>>
                 /\ statuses[Len(statuses)] = "success")
        /\ (/\ Len(download.attempts) = Len(download.urls)
            /\ \A k \in 1..Len(statuses) : statuses[k] = "failure")
            => download.result = Err("curl exited with error")
        /\ download.result = Running
            => Len(download.attempts) < Len(download.urls)

\* the first of three URLs failed, the second succeeded, the third was not
\* tried
C29_Witness ==
    /\ started
    /\ Len(download.urls) = 3
    /\ download.result = Ok(<<>>)
    /\ Len(download.attempts) = 2
    /\ download.printed = <<download.urls[2]>>

====
